---- MODULE Spec2Model ----
(***************************************************************************)
(* A model of the relational query-construction helpers of graph-node      *)
(* (store/postgres/src/relational/dsl.rs): the predicate builders IdEq,    *)
(* AtBlock and BelongsToCausalityRegion and the projection pair            *)
(* selected_columns / select_cols.                                         *)
(*                                                                         *)
(* A rendered fragment is the sequence of pushes the builder makes on the  *)
(* AstPass: push_sql(text), push_identifier(name), push_bind_param(value). *)
(***************************************************************************)
EXTENDS Integers, Sequences, FiniteSets, TLC

\* ------------------------------------------------------------------ bounds

\* Sampled block numbers are -1..MaxBlock plus the two largest 32-bit values.
MaxBlock == 2

\* Causality regions are 0..MaxRegion.
MaxRegion == 1

\* A table declares between 2 and MaxCols of the columns of ColumnUniverse.
MaxCols == 15

\* A Select request names at most MaxNames attributes.
MaxNames == 2

\* A schema document holds at most MaxDefs definitions.
MaxDefs == 2

\* The callers that build queries against the shared table at once.
MaxThreads == 2

\* ------------------------------------------------------- program constants

BLOCK_NUMBER_MAX == 2147483647

\* The literal default of the coalesce(...) in the first hint conjunct.
COALESCE_UPPER_DEFAULT == 2147483647

BLOCK_COLUMN == "block"

BLOCK_RANGE_COLUMN == "block_range"

TYPENAME == "__typename"

PARENT_ID == "g$parent_id"

ID == "id"

\* --------------------------------------------------------- AstPass pushes

\* out.push_sql(text)
Sql(text) == [k |-> "sql", v |-> text]

\* out.push_identifier(name): the name, quoted as an identifier
Ident(name) == [k |-> "ident", v |-> name]

\* out.push_bind_param::<ty, _>(value): a placeholder and a typed bind value
Bind(ty, value) == [k |-> "bind", ty |-> ty, val |-> value]

\* The bind parameters collected by a rendered fragment, in order.
Binds(toks) == SelectSeq(toks, LAMBDA t : t.k = "bind")

\* ------------------------------------------------------ table descriptors

\* relational::Column: the column's SQL name, the entity field it stores,
\* its ColumnType and the list/nullable flags of its field type.
Col(name, fld, column_type, is_list, is_nullable) ==
    [name |-> name, field |-> fld, column_type |-> column_type,
     is_list |-> is_list, is_nullable |-> is_nullable]

\* The columns a table may declare, in declaration order; a table declares
\* a prefix of them.  The primary key is deliberately not the first one.
ColumnUniverse ==
    << Col("zeta", "zeta", "String", FALSE, FALSE),
       Col("id", "id", "String", FALSE, FALSE),
       Col("kind", "kind", "Enum", FALSE, TRUE),
       Col("owner", "Owner", "Bytes", FALSE, FALSE),
       Col("alpha", "alpha", "Int", FALSE, TRUE),
       Col("tags", "tags", "String", TRUE, TRUE),
       Col("active", "active", "Boolean", FALSE, FALSE),
       Col("price", "price", "BigDecimal", FALSE, TRUE),
       Col("supply", "supply", "BigInt", TRUE, FALSE),
       Col("count", "count", "Int8", FALSE, FALSE),
       Col("at", "at", "Timestamp", FALSE, TRUE),
       Col("search", "search", "TSVector", FALSE, TRUE),
       Col("roles", "roles", "Enum", TRUE, FALSE),
       Col("level", "level", "Enum", FALSE, FALSE),
       Col("kinds", "kinds", "Enum", TRUE, TRUE) >>

Min(a, b) == IF a <= b THEN a ELSE b

\* The number of columns of the largest table.
NCols == Min(MaxCols, Len(ColumnUniverse))

\* super::Table, as far as the helpers read it.
Tables ==
    [ nsp : {"sgd1"}, name : {"token"}, qualified_name : {"\"sgd1\".\"token\""},
      typename : {"Token"},
      columns : { SubSeq(ColumnUniverse, 1, n) : n \in 2..NCols },
      immutable : BOOLEAN, is_account_like : BOOLEAN,
      has_causality_region : BOOLEAN ]

\* Sampled values of BlockNumber (i32).
Blocks == ((-1)..MaxBlock) \cup {BLOCK_NUMBER_MAX - 1, BLOCK_NUMBER_MAX}

\* Sampled values of CausalityRegion.
Regions == 0..MaxRegion

\* Sampled values of Id, one per variant.
Ids == { [variant |-> "String", s |-> "a1"],
         [variant |-> "Bytes", s |-> "0xbeef"],
         [variant |-> "Int8", i |-> 7] }

\* ------------------------------------------------------ predicate builders

\* impl QueryFragment for Table: "nsp"."name"
Table_walk_ast(t) == <<Ident(t.nsp), Sql("."), Ident(t.name)>>

\* No builder has been created yet.
NoExpr == [tag |-> "none"]

AtBlock_new(block) ==
    [tag |-> "AtBlock", block |-> block, filters_by_id |-> FALSE]

\* AtBlock_filters_by_id flipping the flag instead of setting it.
AtBlock_filters_by_id_toggles(self) ==
    [self EXCEPT !.filters_by_id = ~self.filters_by_id]

AtBlock_filters_by_id(self) == [self EXCEPT !.filters_by_id = TRUE]

\* AtBlock_add_hints without the test block < BLOCK_NUMBER_MAX.
AtBlock_no_max_check(self, t, use_brin) ==
    LET should_use_brin == ~self.filters_by_id \/ use_brin
    IN  t.is_account_like /\ should_use_brin

\* AtBlock_add_hints without should_use_brin.
AtBlock_ignores_filters_by_id(self, t, use_brin) ==
    t.is_account_like /\ self.block < BLOCK_NUMBER_MAX

\* AtBlock_add_hints with the hints switched off.
AtBlock_never_hints(self, t, use_brin) == FALSE

\* AtBlock_add_hints with block <= BLOCK_NUMBER_MAX for block < BLOCK_NUMBER_MAX.
AtBlock_hints_at_max(self, t, use_brin) ==
    LET should_use_brin == ~self.filters_by_id \/ use_brin
    IN  t.is_account_like /\ self.block <= BLOCK_NUMBER_MAX /\ should_use_brin

\* The condition under which AtBlock adds the two hint conjuncts.
AtBlock_add_hints(self, t, use_brin) ==
    LET should_use_brin == ~self.filters_by_id \/ use_brin
    IN  t.is_account_like /\ self.block < BLOCK_NUMBER_MAX /\ should_use_brin

\* AtBlock_hints with lower(block_range) < $block in the second conjunct.
AtBlock_hints_swapped(self) ==
    << Sql(" and coalesce(upper("), Ident(BLOCK_RANGE_COLUMN),
       Sql("), 2147483647) > "), Bind("Integer", self.block),
       Sql(" and lower("), Ident(BLOCK_RANGE_COLUMN),
       Sql(") < "), Bind("Integer", self.block) >>

\* The two hint conjuncts; the range column is pushed without the table.
AtBlock_hints(self) ==
    << Sql(" and coalesce(upper("), Ident(BLOCK_RANGE_COLUMN),
       Sql("), 2147483647) > "), Bind("Integer", self.block),
       Sql(" and lower("), Ident(BLOCK_RANGE_COLUMN),
       Sql(") <= "), Bind("Integer", self.block) >>

\* AtBlock_immutable as an equality test on the block column.
AtBlock_immutable_equality(self, t) ==
    Table_walk_ast(t) \o
    << Sql("."), Ident(BLOCK_COLUMN), Sql(" = "), Bind("Integer", self.block) >>

\* AtBlock_immutable without the special case of BLOCK_NUMBER_MAX.
AtBlock_immutable_always_compares(self, t) ==
    Table_walk_ast(t) \o
    << Sql("."), Ident(BLOCK_COLUMN), Sql(" <= "), Bind("Integer", self.block) >>

\* AtBlock_immutable with block < $block.
AtBlock_immutable_strict(self, t) ==
    IF self.block = BLOCK_NUMBER_MAX
    THEN << Sql("true") >>
    ELSE Table_walk_ast(t) \o
         << Sql("."), Ident(BLOCK_COLUMN), Sql(" < "), Bind("Integer", self.block) >>

\* The fragment for an immutable table.
AtBlock_immutable(self, t) ==
    IF self.block = BLOCK_NUMBER_MAX
    THEN << Sql("true") >>
    ELSE Table_walk_ast(t) \o
         << Sql("."), Ident(BLOCK_COLUMN), Sql(" <= "), Bind("Integer", self.block) >>

\* impl QueryFragment<Pg> for AtBlock
AtBlock_walk_ast(self, t, use_brin) ==
    IF t.immutable
    THEN AtBlock_immutable(self, t)
    ELSE Table_walk_ast(t) \o
         << Sql("."), Ident(BLOCK_RANGE_COLUMN), Sql(" @> "),
            Bind("Integer", self.block) >> \o
         (IF AtBlock_add_hints(self, t, use_brin) THEN AtBlock_hints(self) ELSE << >>)

BelongsToCausalityRegion_new(cr) ==
    [tag |-> "BelongsToCausalityRegion", cr |-> cr]

\* BelongsToCausalityRegion_walk_ast without the test of has_causality_region.
BelongsToCausalityRegion_always_filters(self, t) ==
    Table_walk_ast(t) \o
    << Sql(".causality_region"), Sql(" = "), Bind("Integer", self.cr) >>

\* impl QueryFragment<Pg> for BelongsToCausalityRegion
BelongsToCausalityRegion_walk_ast(self, t) ==
    IF t.has_causality_region
    THEN Table_walk_ast(t) \o
         << Sql(".causality_region"), Sql(" = "), Bind("Integer", self.cr) >>
    ELSE << Sql("true") >>

IdEq_new(id) == [tag |-> "IdEq", id |-> id]

\* IdEq_walk_ast with a check of the Id variant against the kind of the
\* table's id column, rendering nothing on a mismatch.
IdEq_walk_ast_checks_id_kind(self, t) ==
    LET pk == CHOOSE c \in { t.columns[i] : i \in DOMAIN t.columns } : c.name = "id"
    IN  IF self.id.variant # pk.column_type THEN << >>
        ELSE Table_walk_ast(t) \o
             << Sql(".id = "),
                CASE self.id.variant = "String" -> Bind("Text", self.id.s)
                  [] self.id.variant = "Bytes" -> Bind("Binary", self.id.s)
                  [] self.id.variant = "Int8" -> Bind("BigInt", self.id.i) >>

\* impl QueryFragment<Pg> for IdEq
IdEq_walk_ast(self, t) ==
    Table_walk_ast(t) \o
    << Sql(".id = "),
       CASE self.id.variant = "String" -> Bind("Text", self.id.s)
         [] self.id.variant = "Bytes" -> Bind("Binary", self.id.s)
         [] self.id.variant = "Int8" -> Bind("BigInt", self.id.i) >>

\* ------------------------------------------------------ pseudo-columns

\* relational::Column::pseudo_column: a column that is no entity attribute.
pseudo_column(name, column_type) == Col(name, name, column_type, FALSE, TRUE)

TYPENAME_COL == pseudo_column(TYPENAME, "String")

VID_COL == pseudo_column("vid", "Int8")

BLOCK_COL == pseudo_column(BLOCK_COLUMN, "Int8")

BLOCK_RANGE_COL == pseudo_column(BLOCK_RANGE_COLUMN, "Bytes")

PARENT_STRING_COL == pseudo_column(PARENT_ID, "String")

PARENT_BYTES_COL == pseudo_column(PARENT_ID, "Bytes")

PARENT_INT_COL == pseudo_column(PARENT_ID, "Int8")

META_COLS == << TYPENAME_COL, VID_COL >>

\* ------------------------------------------------------ selected_columns

\* The attribute names a Select request may hold; "nope" is declared by no
\* table.
RequestNames == {"id", "zeta", "alpha", "Owner", "nope"}

\* The UTF-8 bytes of the names, which is what the order of names compares.
NameBytes ==
    [ n \in RequestNames |->
        CASE n = "id" -> << 105, 100 >>
          [] n = "zeta" -> << 122, 101, 116, 97 >>
          [] n = "alpha" -> << 97, 108, 112, 104, 97 >>
          [] n = "Owner" -> << 79, 119, 110, 101, 114 >>
          [] n = "nope" -> << 110, 111, 112, 101 >> ]

\* Lexicographic order of byte strings (Ord for str).
RECURSIVE BytesLess(_, _)
BytesLess(a, b) ==
    IF b = << >> THEN FALSE
    ELSE IF a = << >> THEN TRUE
    ELSE IF a[1] # b[1] THEN a[1] < b[1]
    ELSE BytesLess(Tail(a), Tail(b))

NameLess(a, b) == BytesLess(NameBytes[a], NameBytes[b])

\* names.sort()
RECURSIVE InsertSorted(_, _)
InsertSorted(x, s) ==
    IF s = << >> THEN << x >>
    ELSE IF NameLess(x, s[1]) THEN << x >> \o s
    ELSE << s[1] >> \o InsertSorted(x, Tail(s))

\* names.sort() left out: the names stay in iteration order.
Sort_keeps_iteration_order(s) == s

RECURSIVE Sort(_)
Sort(s) == IF s = << >> THEN << >> ELSE InsertSorted(s[1], Sort(Tail(s)))

\* AttributeNames: All, or Select of a set of names.
AttributeNames ==
    { [tag |-> "All"] } \cup
    { [tag |-> "Select", names |-> S] :
        S \in { S \in SUBSET RequestNames : Cardinality(S) <= MaxNames } }

\* The orders in which iterating over a set of names may yield them.
IterationOrders(S) ==
    { f \in [1..Cardinality(S) -> S] : \A i, j \in DOMAIN f : f[i] = f[j] => i = j }

\* Option<IdType>
ParentTypes == {"None", "String", "Bytes", "Int8"}

\* relational::Table::primary_key
primary_key(t) == CHOOSE c \in { t.columns[i] : i \in DOMAIN t.columns } : c.name = ID

\* relational::Table::column_for_field: the column that stores a field, or
\* the error for an unknown one.
column_for_field(t, fld) ==
    LET found == { i \in DOMAIN t.columns : t.columns[i].field = fld }
    IN  IF found = {}
        THEN [tag |-> "Err", unknown_field |-> fld]
        ELSE [tag |-> "Ok", column |-> t.columns[CHOOSE i \in found : TRUE]]

\* resolve_names with an unknown name skipped instead of returned as error.
RECURSIVE resolve_names_drops_unknown(_, _)
resolve_names_drops_unknown(t, names) ==
    IF names = << >> THEN [tag |-> "Ok", cols |-> << >>]
    ELSE LET column == column_for_field(t, names[1])
             rest == resolve_names_drops_unknown(t, Tail(names))
         IN  IF column.tag = "Err" THEN rest
             ELSE [tag |-> "Ok", cols |-> << column.column >> \o rest.cols]

\* The loop that resolves the sorted names; the first failure is returned.
RECURSIVE resolve_names(_, _)
resolve_names(t, names) ==
    IF names = << >> THEN [tag |-> "Ok", cols |-> << >>]
    ELSE LET column == column_for_field(t, names[1])
         IN  IF column.tag = "Err" THEN column
             ELSE LET rest == resolve_names(t, Tail(names))
                  IN  IF rest.tag = "Err" THEN rest
                      ELSE [tag |-> "Ok", cols |-> << column.column >> \o rest.cols]

\* select_arm without the unconditional primary key: id is resolved like
\* any other name, where it sorts and only if requested.
select_arm_pk_if_requested(t, iter) ==
    LET resolved == resolve_names(t, Sort(iter))
    IN  IF resolved.tag = "Err" THEN resolved
        ELSE [tag |-> "Ok", cols |-> resolved.cols]

\* select_arm without the filter that drops the id field from the names.
select_arm_no_id_filter(t, iter) ==
    LET pk == primary_key(t)
        resolved == resolve_names(t, Sort(iter))
    IN  IF resolved.tag = "Err" THEN resolved
        ELSE [tag |-> "Ok", cols |-> << pk >> \o resolved.cols]

\* The Select arm: the primary key, then the columns of the other names in
\* sorted order.  iter is the order in which names.iter() yields the names.
select_arm(t, iter) ==
    LET pk == primary_key(t)
        names == Sort(SelectSeq(iter, LAMBDA name : name # ID))
        resolved == resolve_names(t, names)
    IN  IF resolved.tag = "Err" THEN resolved
        ELSE [tag |-> "Ok", cols |-> << pk >> \o resolved.cols]

\* typename_cols with the type-name column pushed unconditionally.
typename_cols_always(WITH_INTERNAL_KEYS) == << TYPENAME_COL >>

\* The leading type-name column, pushed if T::WITH_INTERNAL_KEYS.
typename_cols(WITH_INTERNAL_KEYS) ==
    IF WITH_INTERNAL_KEYS THEN << TYPENAME_COL >> ELSE << >>

\* all_arm with the primary key moved to the front, as in the Select arm.
all_arm_pk_first(t) ==
    [tag |-> "Ok",
     cols |-> << primary_key(t) >> \o
              SelectSeq(t.columns, LAMBDA c : c # primary_key(t))]

\* The All arm: every declared column, in declaration order.
all_arm(t) == [tag |-> "Ok", cols |-> t.columns]

\* parent_cols without the test of T::WITH_INTERNAL_KEYS.
parent_cols_ignores_internal_keys(WITH_INTERNAL_KEYS, parent_type) ==
    CASE parent_type = "String" -> << PARENT_STRING_COL >>
      [] parent_type = "Bytes" -> << PARENT_BYTES_COL >>
      [] parent_type = "Int8" -> << PARENT_INT_COL >>
      [] parent_type = "None" -> << >>

\* The parent-id column, pushed if T::WITH_INTERNAL_KEYS and a parent type
\* is given.
parent_cols(WITH_INTERNAL_KEYS, parent_type) ==
    IF WITH_INTERNAL_KEYS
    THEN CASE parent_type = "String" -> << PARENT_STRING_COL >>
           [] parent_type = "Bytes" -> << PARENT_BYTES_COL >>
           [] parent_type = "Int8" -> << PARENT_INT_COL >>
           [] parent_type = "None" -> << >>
    ELSE << >>

\* system_cols with the two branches on immutable exchanged.
system_cols_swapped(t, WITH_SYSTEM_COLUMNS) ==
    IF WITH_SYSTEM_COLUMNS
    THEN << VID_COL >> \o
         (IF t.immutable THEN << BLOCK_RANGE_COL >> ELSE << BLOCK_COL >>)
    ELSE << >>

\* The system columns, pushed if T::WITH_SYSTEM_COLUMNS.
system_cols(t, WITH_SYSTEM_COLUMNS) ==
    IF WITH_SYSTEM_COLUMNS
    THEN << VID_COL >> \o
         (IF t.immutable THEN << BLOCK_COL >> ELSE << BLOCK_RANGE_COL >>)
    ELSE << >>

\* Table::selected_columns::<T>, with T's two associated constants.
selected_columns(t, WITH_INTERNAL_KEYS, WITH_SYSTEM_COLUMNS, column_names, iter, parent_type) ==
    LET typename == typename_cols(WITH_INTERNAL_KEYS)
        attrs == IF column_names.tag = "All" THEN all_arm(t) ELSE select_arm(t, iter)
        parent == parent_cols(WITH_INTERNAL_KEYS, parent_type)
        system == system_cols(t, WITH_SYSTEM_COLUMNS)
    IN  IF attrs.tag = "Err" THEN attrs
        ELSE [tag |-> "Ok", cols |-> typename \o attrs.cols \o parent \o system]

\* ------------------------------------------------------------ select_cols

\* Table::column: the first column of that name among the declared columns
\* followed by META_COLS, or None.
Table_column(t, name) ==
    LET all == t.columns \o META_COLS
        found == { i \in DOMAIN all : all[i].name = name }
    IN  IF found = {}
        THEN [tag |-> "None"]
        ELSE [tag |-> "Some",
              column |-> all[CHOOSE i \in found : \A j \in found : i <= j]]

\* Wrapper with a list column never wrapped as nullable.
Wrapper_list_never_nullable(column) ==
    CASE column.is_list -> "Array<ST>"
      [] ~column.is_list /\ column.is_nullable -> "Nullable<ST>"
      [] ~column.is_list /\ ~column.is_nullable -> "ST"

\* The nullable/array wrapper chosen from (is_list, is_nullable).
Wrapper(column) ==
    CASE column.is_list /\ column.is_nullable -> "Nullable<Array<ST>>"
      [] column.is_list /\ ~column.is_nullable -> "Array<ST>"
      [] ~column.is_list /\ column.is_nullable -> "Nullable<ST>"
      [] ~column.is_list /\ ~column.is_nullable -> "ST"

\* add_field::<ST>: a typed reference to the column Table::column finds;
\* unwrap() panics when it finds none.
add_field(t, st, column) ==
    LET c == Table_column(t, column.name)
    IN  IF c.tag = "None"
        THEN [tag |-> "Panic", name |-> column.name]
        ELSE [tag |-> "Ok",
              field |-> [k |-> "column", st |-> st, wrap |-> Wrapper(column),
                         column |-> c.column]]

\* add_enum_field: the text qualified_name.column::text as raw SQL
add_enum_field(t, column) ==
    [tag |-> "Ok",
     field |-> [k |-> "sql", st |-> "Text", wrap |-> Wrapper(column),
                text |-> << t.qualified_name, ".", column.name, "::text" >>]]

\* select_col with an Enum column sent through the typed dispatch as text.
select_col_enum_as_text(t, column) ==
    IF column.name = TYPENAME_COL.name
    THEN [tag |-> "Ok",
          field |-> [k |-> "sql", st |-> "Text", wrap |-> "ST",
                     text |-> << "'", t.typename, "' as __typename" >>]]
    ELSE CASE column.column_type = "Boolean" -> add_field(t, "Bool", column)
           [] column.column_type = "BigDecimal" -> add_field(t, "Numeric", column)
           [] column.column_type = "BigInt" -> add_field(t, "Numeric", column)
           [] column.column_type = "Bytes" -> add_field(t, "Binary", column)
           [] column.column_type = "Int" -> add_field(t, "Integer", column)
           [] column.column_type = "Int8" -> add_field(t, "BigInt", column)
           [] column.column_type = "Timestamp" -> add_field(t, "Timestamptz", column)
           [] column.column_type = "String" -> add_field(t, "Text", column)
           [] column.column_type = "TSVector" -> add_field(t, "Text", column)
           [] column.column_type = "Enum" -> add_field(t, "Text", column)

\* select_col with a BigInt column selected as a 64-bit integer.
select_col_bigint_as_int8(t, column) ==
    IF column.name = TYPENAME_COL.name
    THEN [tag |-> "Ok",
          field |-> [k |-> "sql", st |-> "Text", wrap |-> "ST",
                     text |-> << "'", t.typename, "' as __typename" >>]]
    ELSE CASE column.column_type = "Boolean" -> add_field(t, "Bool", column)
           [] column.column_type = "BigDecimal" -> add_field(t, "Numeric", column)
           [] column.column_type = "BigInt" -> add_field(t, "BigInt", column)
           [] column.column_type = "Bytes" -> add_field(t, "Binary", column)
           [] column.column_type = "Int" -> add_field(t, "Integer", column)
           [] column.column_type = "Int8" -> add_field(t, "BigInt", column)
           [] column.column_type = "Timestamp" -> add_field(t, "Timestamptz", column)
           [] column.column_type = "String" -> add_field(t, "Text", column)
           [] column.column_type = "TSVector" -> add_field(t, "Text", column)
           [] column.column_type = "Enum" -> add_enum_field(t, column)

\* select_col recognising __typename only on a plain String column.
select_col_typename_by_kind(t, column) ==
    IF column.name = TYPENAME_COL.name /\ column.column_type = "String"
       /\ ~column.is_list
    THEN [tag |-> "Ok",
          field |-> [k |-> "sql", st |-> "Text", wrap |-> "ST",
                     text |-> << "'", t.typename, "' as __typename" >>]]
    ELSE CASE column.column_type = "Boolean" -> add_field(t, "Bool", column)
           [] column.column_type = "BigDecimal" -> add_field(t, "Numeric", column)
           [] column.column_type = "BigInt" -> add_field(t, "Numeric", column)
           [] column.column_type = "Bytes" -> add_field(t, "Binary", column)
           [] column.column_type = "Int" -> add_field(t, "Integer", column)
           [] column.column_type = "Int8" -> add_field(t, "BigInt", column)
           [] column.column_type = "Timestamp" -> add_field(t, "Timestamptz", column)
           [] column.column_type = "String" -> add_field(t, "Text", column)
           [] column.column_type = "TSVector" -> add_field(t, "Text", column)
           [] column.column_type = "Enum" -> add_enum_field(t, column)

\* The body of the loop of select_cols for one column.
select_col(t, column) ==
    IF column.name = TYPENAME_COL.name
    THEN [tag |-> "Ok",
          field |-> [k |-> "sql", st |-> "Text", wrap |-> "ST",
                     text |-> << "'", t.typename, "' as __typename" >>]]
    ELSE CASE column.column_type = "Boolean" -> add_field(t, "Bool", column)
           [] column.column_type = "BigDecimal" -> add_field(t, "Numeric", column)
           [] column.column_type = "BigInt" -> add_field(t, "Numeric", column)
           [] column.column_type = "Bytes" -> add_field(t, "Binary", column)
           [] column.column_type = "Int" -> add_field(t, "Integer", column)
           [] column.column_type = "Int8" -> add_field(t, "BigInt", column)
           [] column.column_type = "Timestamp" -> add_field(t, "Timestamptz", column)
           [] column.column_type = "String" -> add_field(t, "Text", column)
           [] column.column_type = "TSVector" -> add_field(t, "Text", column)
           [] column.column_type = "Enum" -> add_enum_field(t, column)

\* Table::select_cols: the fields added to the select clause, in order, or
\* the panic of the first column that cannot be added.
RECURSIVE select_cols(_, _)
select_cols(t, columns) ==
    IF columns = << >> THEN [tag |-> "Ok", fields |-> << >>]
    ELSE LET first == select_col(t, columns[1])
         IN  IF first.tag = "Panic" THEN first
             ELSE LET rest == select_cols(t, Tail(columns))
                  IN  IF rest.tag = "Panic" THEN rest
                      ELSE [tag |-> "Ok", fields |-> << first.field >> \o rest.fields]

\* ------------------------------------------ meaning of a rendered fragment

\* A row's int4range value [lo, hi); inf marks an unbounded upper bound
\* (int4range(lo, null)), in which case hi is not read.  A range with
\* lo = hi is the empty range.
RangeBounds == (0..MaxBlock) \cup {BLOCK_NUMBER_MAX - 1, BLOCK_NUMBER_MAX}

Ranges ==
    { r \in [lo : RangeBounds, hi : RangeBounds, inf : BOOLEAN] :
        /\ r.inf => r.hi = r.lo
        /\ ~r.inf => r.lo <= r.hi }

RangeIsEmpty(r) == ~r.inf /\ r.lo >= r.hi

\* SQL truth values: "T", "F" and "N" (null).
And3(a, b) ==
    IF a = "F" \/ b = "F" THEN "F"
    ELSE IF a = "N" \/ b = "N" THEN "N" ELSE "T"

Bool3(b) == IF b THEN "T" ELSE "F"

\* range @> b
RangeContains(r, b) ==
    Bool3(~RangeIsEmpty(r) /\ r.lo <= b /\ (r.inf \/ b < r.hi))

\* coalesce(upper(range), dflt) > b: upper() is null for an empty range and
\* for an unbounded upper bound.
CoalesceUpperGt(r, dflt, b) ==
    IF RangeIsEmpty(r) \/ r.inf THEN Bool3(dflt > b) ELSE Bool3(r.hi > b)

\* lower(range) <= b: lower() is null for an empty range.
LowerLe(r, b) == IF RangeIsEmpty(r) THEN "N" ELSE Bool3(r.lo <= b)

\* The fragment starts with the qualified reference "nsp"."table"."col".
IsQualified(toks, t, col) ==
    /\ Len(toks) >= 5
    /\ SubSeq(toks, 1, 5) = Table_walk_ast(t) \o << Sql("."), Ident(col) >>

\* The value of a rendered fragment on a row of table t, or "error" when
\* the text is not one of the fragments the builders emit.  The row maps a
\* column name to its value.
RECURSIVE EvalSql(_, _, _)
EvalSql(toks, t, row) ==
    IF toks = << >> THEN "T"
    ELSE IF toks[1] = Sql("true")
    THEN And3("T", EvalSql(Tail(toks), t, row))
    ELSE IF IsQualified(toks, t, BLOCK_RANGE_COLUMN) /\ Len(toks) >= 7
            /\ toks[6] = Sql(" @> ") /\ toks[7].k = "bind"
    THEN And3(RangeContains(row[BLOCK_RANGE_COLUMN], toks[7].val),
              EvalSql(SubSeq(toks, 8, Len(toks)), t, row))
    ELSE IF IsQualified(toks, t, BLOCK_COLUMN) /\ Len(toks) >= 7
            /\ toks[6] \in {Sql(" <= "), Sql(" < ")} /\ toks[7].k = "bind"
    THEN And3(IF toks[6] = Sql(" <= ")
              THEN Bool3(row[BLOCK_COLUMN] <= toks[7].val)
              ELSE Bool3(row[BLOCK_COLUMN] < toks[7].val),
              EvalSql(SubSeq(toks, 8, Len(toks)), t, row))
    ELSE IF Len(toks) >= 4 /\ toks[1] = Sql(" and coalesce(upper(")
            /\ toks[2] = Ident(BLOCK_RANGE_COLUMN)
            /\ toks[3] = Sql("), 2147483647) > ") /\ toks[4].k = "bind"
    THEN And3(CoalesceUpperGt(row[BLOCK_RANGE_COLUMN], COALESCE_UPPER_DEFAULT,
                              toks[4].val),
              EvalSql(SubSeq(toks, 5, Len(toks)), t, row))
    ELSE IF Len(toks) >= 4 /\ toks[1] = Sql(" and lower(")
            /\ toks[2] = Ident(BLOCK_RANGE_COLUMN)
            /\ toks[3] \in {Sql(") <= "), Sql(") < ")} /\ toks[4].k = "bind"
    THEN And3(IF toks[3] = Sql(") <= ")
              THEN LowerLe(row[BLOCK_RANGE_COLUMN], toks[4].val)
              ELSE And3(LowerLe(row[BLOCK_RANGE_COLUMN], toks[4].val),
                        Bool3(row[BLOCK_RANGE_COLUMN].lo # toks[4].val)),
              EvalSql(SubSeq(toks, 5, Len(toks)), t, row))
    ELSE "error"

\* A WHERE clause keeps a row exactly when the predicate is true.
Selects(toks, t, row) == EvalSql(toks, t, row) = "T"

\* ------------------------------------------------------------------- state

VARIABLES
    table,      \* the shared table descriptor the builders borrow
    use_brin_for_all_query_types,   \* ENV_VARS.store.use_brin_for_all_query_types
    at_block,   \* the AtBlock builder under construction, or NoExpr
    out,        \* the expression last rendered and the pushes it made
    cols,       \* the last result of selected_columns
    selection,  \* the last result of select_cols
    threads,    \* per concurrent caller: the query it is building
    stream,     \* the call of new_block_stream in progress
    schema      \* the schema document under conversion and its two results

vars ==
    << table, use_brin_for_all_query_types, at_block, out, cols, selection,
       threads, stream, schema >>

\* What the predicate builders and the projection pair of the single caller
\* leave alone.
elsewhere == << threads, stream, schema >>

NoCols == [tag |-> "none"]

NoSelection == [tag |-> "none"]

\* The concurrent callers.
Threads == 1..MaxThreads

\* A caller that is not building a query.
IdleThread == [pc |-> "idle"]

\* No call of new_block_stream is in progress.
NoStream == [pc |-> "idle"]

\* No schema document is under conversion.
NoSchema == [pc |-> "idle"]

Init ==
    /\ table \in Tables
    /\ use_brin_for_all_query_types \in BOOLEAN
    /\ at_block = NoExpr
    /\ out = [expr |-> NoExpr, sql |-> << >>]
    /\ cols = NoCols
    /\ selection = NoSelection
    /\ threads = [th \in Threads |-> IdleThread]
    /\ stream = NoStream
    /\ schema = NoSchema

\* Table::at_block
TableAtBlock ==
    \E block \in Blocks :
        /\ at_block' = AtBlock_new(block)
        /\ UNCHANGED elsewhere /\ UNCHANGED << table, use_brin_for_all_query_types, out, cols, selection >>

\* AtBlock::filters_by_id
FiltersById ==
    /\ at_block.tag = "AtBlock"
    /\ at_block' = AtBlock_filters_by_id(at_block)
    /\ UNCHANGED elsewhere /\ UNCHANGED << table, use_brin_for_all_query_types, out, cols, selection >>

\* AtBlock::walk_ast on a fresh AstPass
AtBlockWalkAst ==
    /\ at_block.tag = "AtBlock"
    /\ out' = [expr |-> at_block,
               sql |-> AtBlock_walk_ast(at_block, table, use_brin_for_all_query_types)]
    /\ UNCHANGED elsewhere /\ UNCHANGED << table, use_brin_for_all_query_types, at_block, cols, selection >>

\* Table::belongs_to_causality_region followed by walk_ast on a fresh AstPass
BelongsToCausalityRegionWalkAst ==
    \E cr \in Regions :
        LET self == BelongsToCausalityRegion_new(cr)
        IN  /\ out' = [expr |-> self,
                       sql |-> BelongsToCausalityRegion_walk_ast(self, table)]
            /\ UNCHANGED elsewhere /\ UNCHANGED << table, use_brin_for_all_query_types, at_block, cols,
                            selection >>

\* Table::id_eq followed by walk_ast on a fresh AstPass
IdEqWalkAst ==
    \E id \in Ids :
        LET self == IdEq_new(id)
        IN  /\ out' = [expr |-> self, sql |-> IdEq_walk_ast(self, table)]
            /\ UNCHANGED elsewhere /\ UNCHANGED << table, use_brin_for_all_query_types, at_block, cols,
                            selection >>

\* The predicate builders alone.
NextPredicates ==
    \/ TableAtBlock
    \/ FiltersById
    \/ AtBlockWalkAst
    \/ BelongsToCausalityRegionWalkAst
    \/ IdEqWalkAst

SpecPredicates == Init /\ [][NextPredicates]_vars

\* A caller that holds no column list starts a query with
\* Table::selected_columns::<T>.
SelectedColumns ==
    /\ cols = NoCols
    /\ \E wik \in BOOLEAN, wsc \in BOOLEAN, column_names \in AttributeNames,
       parent_type \in ParentTypes :
       \E iter \in IF column_names.tag = "All" THEN { << >> }
                   ELSE IterationOrders(column_names.names) :
            /\ cols' = [tag |-> "called",
                        WITH_INTERNAL_KEYS |-> wik, WITH_SYSTEM_COLUMNS |-> wsc,
                        column_names |-> column_names, parent_type |-> parent_type,
                        result |-> selected_columns(table, wik, wsc, column_names,
                                                    iter, parent_type)]
            /\ UNCHANGED elsewhere /\ UNCHANGED << table, use_brin_for_all_query_types, at_block, out,
                            selection >>

\* The caller passes the columns it got to Table::select_cols.
SelectCols ==
    /\ cols.tag = "called"
    /\ cols.result.tag = "Ok"
    /\ selection = NoSelection
    /\ selection' = select_cols(table, cols.result.cols)
    /\ UNCHANGED elsewhere /\ UNCHANGED << table, use_brin_for_all_query_types, at_block, out, cols >>

\* The caller is done with the query (it returned the error, or handed the
\* statement on) and drops the column list and the select clause.
QueryDone ==
    /\ cols.tag = "called"
    /\ cols' = NoCols
    /\ selection' = NoSelection
    /\ UNCHANGED elsewhere /\ UNCHANGED << table, use_brin_for_all_query_types, at_block, out >>

\* The projection pair alone.
NextProjection ==
    \/ SelectedColumns
    \/ SelectCols
    \/ QueryDone

SpecProjection == Init /\ [][NextProjection]_vars

\* The predicate builders and the projection pair share only the table,
\* which no action changes, so what holds of either part alone holds of
\* both together.
Next ==
    \/ NextPredicates
    \/ NextProjection

Spec == Init /\ [][Next]_vars

\* ------------------------------------------------------ concurrent callers

\* The state every caller shares: the table descriptor and ENV_VARS.
shared == << table, use_brin_for_all_query_types >>

\* What a step of a concurrent caller leaves alone besides the shared state.
not_threads == << at_block, out, cols, selection, stream, schema >>

\* The blocks the concurrent callers ask for.
ThreadBlocks == {MaxBlock, BLOCK_NUMBER_MAX}

\* The projections the concurrent callers ask for.
ThreadRequests ==
    [ WITH_INTERNAL_KEYS : BOOLEAN, WITH_SYSTEM_COLUMNS : BOOLEAN,
      column_names : { [tag |-> "All"],
                       [tag |-> "Select", names |-> {"zeta", "alpha"}] },
      parent_type : {"None"} ]

\* Table::at_block called by th: a builder of th's own.
ThreadAtBlock(th) ==
    \E block \in ThreadBlocks :
        /\ threads' = [threads EXCEPT
                          ![th] = [pc |-> "built", expr |-> AtBlock_new(block)]]
        /\ UNCHANGED << shared, not_threads >>

\* ThreadFiltersById with the id filter recorded on the shared table, by
\* clearing the flag the hints depend on.
ThreadFiltersById_on_table(th) ==
    /\ threads[th].pc = "built"
    /\ threads[th].expr.tag = "AtBlock"
    /\ threads' = [threads EXCEPT ![th].expr = AtBlock_filters_by_id(@)]
    /\ table' = [table EXCEPT !.is_account_like = FALSE]
    /\ UNCHANGED << use_brin_for_all_query_types, not_threads >>

\* AtBlock::filters_by_id called by th on its builder.
ThreadFiltersById(th) ==
    /\ threads[th].pc = "built"
    /\ threads[th].expr.tag = "AtBlock"
    /\ threads' = [threads EXCEPT ![th].expr = AtBlock_filters_by_id(@)]
    /\ UNCHANGED << shared, not_threads >>

\* Table::id_eq called by th.
ThreadIdEq(th) ==
    \E id \in Ids :
        /\ threads' = [threads EXCEPT
                          ![th] = [pc |-> "built", expr |-> IdEq_new(id)]]
        /\ UNCHANGED << shared, not_threads >>

\* Table::belongs_to_causality_region called by th.
ThreadBelongsToCausalityRegion(th) ==
    \E cr \in Regions :
        /\ threads' = [threads EXCEPT
                          ![th] = [pc |-> "built",
                                   expr |-> BelongsToCausalityRegion_new(cr)]]
        /\ UNCHANGED << shared, not_threads >>

\* What walk_ast pushes for a builder, by its type.
walk_ast(expr, t, use_brin) ==
    CASE expr.tag = "AtBlock" -> AtBlock_walk_ast(expr, t, use_brin)
      [] expr.tag = "IdEq" -> IdEq_walk_ast(expr, t)
      [] expr.tag = "BelongsToCausalityRegion" ->
             BelongsToCausalityRegion_walk_ast(expr, t)

\* th renders the builder it holds: walk_ast reads the table and ENV_VARS.
ThreadWalkAst(th) ==
    /\ threads[th].pc = "built"
    /\ threads' = [threads EXCEPT
                      ![th] = [pc |-> "rendered", expr |-> threads[th].expr,
                               result |-> walk_ast(threads[th].expr, table,
                                                   use_brin_for_all_query_types)]]
    /\ UNCHANGED << shared, not_threads >>

\* The order in which th's set of names is iterated.
IterationOf(column_names) ==
    IF column_names.tag = "All" THEN << >>
    ELSE CHOOSE iter \in IterationOrders(column_names.names) : TRUE

\* Table::selected_columns called by th.
ThreadSelectedColumns(th) ==
    \E r \in ThreadRequests :
        /\ threads' = [threads EXCEPT
              ![th] = [pc |-> "columns", request |-> r,
                       result |-> selected_columns(table, r.WITH_INTERNAL_KEYS,
                                      r.WITH_SYSTEM_COLUMNS, r.column_names,
                                      IterationOf(r.column_names), r.parent_type)]]
        /\ UNCHANGED << shared, not_threads >>

\* Table::select_cols called by th with the list it got.
ThreadSelectCols(th) ==
    /\ threads[th].pc = "columns"
    /\ threads[th].result.tag = "Ok"
    /\ threads' = [threads EXCEPT
          ![th] = [pc |-> "selected", columns |-> threads[th].result.cols,
                   result |-> select_cols(table, threads[th].result.cols)]]
    /\ UNCHANGED << shared, not_threads >>

\* Any number of callers build queries against the one table, their calls
\* interleaved in any order.
NextConcurrent ==
    \E th \in Threads :
        \/ ThreadAtBlock(th)
        \/ ThreadFiltersById(th)
        \/ ThreadIdEq(th)
        \/ ThreadBelongsToCausalityRegion(th)
        \/ ThreadWalkAst(th)
        \/ ThreadSelectedColumns(th)
        \/ ThreadSelectCols(th)

\* The callers are handed the smallest or the largest of the tables.
InitConcurrent ==
    /\ Init
    /\ Len(table.columns) \in {2, NCols}

SpecConcurrent == InitConcurrent /\ [][NextConcurrent]_vars

\* ---------------------------------------------------- claims on AtBlock

\* A row of a mutable table, by its block_range value.
RangeRow(r) == (BLOCK_RANGE_COLUMN :> r)

\* A row of an immutable table, by its block value.
BlockRow(v) == (BLOCK_COLUMN :> v)

\* "nsp"."table"."block_range"
QualifiedRange == Table_walk_ast(table) \o << Sql("."), Ident(BLOCK_RANGE_COLUMN) >>

\* The containment test for the block of the rendered AtBlock.
ContainmentTest == QualifiedRange \o << Sql(" @> "), Bind("Integer", out.expr.block) >>

RenderedAtBlock == out.expr.tag = "AtBlock"

\* C1: for a mutable table and a row with range [lo, hi) (hi possibly
\* unbounded) the rendered AtBlock predicate selects the row exactly when
\* lo <= b < hi, whatever is_account_like, filters_by_id and the override are.
C1_MutableVisibleIffInRange ==
    (RenderedAtBlock /\ ~table.immutable) =>
        \A r \in Ranges :
            Selects(out.sql, table, RangeRow(r)) <=>
                (r.lo <= out.expr.block /\ (r.inf \/ out.expr.block < r.hi))

C1_Witness ==
    /\ RenderedAtBlock /\ ~table.immutable
    /\ out.expr.block = BLOCK_NUMBER_MAX /\ table.is_account_like
    /\ Selects(out.sql, table, RangeRow([lo |-> 1, hi |-> 1, inf |-> TRUE]))
    /\ ~Selects(out.sql, table,
                RangeRow([lo |-> 1, hi |-> BLOCK_NUMBER_MAX, inf |-> FALSE]))

\* C2: whenever the two hint conjuncts are appended, each of them is true on
\* every row the containment test is true on, and the three-conjunct
\* predicate selects exactly the rows the containment test alone selects.
C2_HintsImpliedByContainment ==
    (RenderedAtBlock /\ ~table.immutable /\ Len(out.sql) > 7) =>
        /\ Len(out.sql) = 15
        /\ SubSeq(out.sql, 1, 7) = ContainmentTest
        /\ \A r \in Ranges :
            /\ Selects(ContainmentTest, table, RangeRow(r)) =>
                 /\ EvalSql(SubSeq(out.sql, 8, 11), table, RangeRow(r)) = "T"
                 /\ EvalSql(SubSeq(out.sql, 12, 15), table, RangeRow(r)) = "T"
            /\ Selects(out.sql, table, RangeRow(r)) <=>
                 Selects(ContainmentTest, table, RangeRow(r))

C2_Witness ==
    /\ RenderedAtBlock /\ ~table.immutable /\ Len(out.sql) = 15
    /\ out.expr.block = BLOCK_NUMBER_MAX - 1
    /\ Selects(out.sql, table,
               RangeRow([lo |-> BLOCK_NUMBER_MAX - 1, hi |-> BLOCK_NUMBER_MAX,
                         inf |-> FALSE]))
    /\ Selects(out.sql, table, RangeRow([lo |-> 0, hi |-> 0, inf |-> TRUE]))

\* C3: for an immutable table and a row whose block column holds v, the
\* rendered AtBlock predicate selects the row exactly when v <= b, also for
\* b = BLOCK_NUMBER_MAX where the constant true is rendered.
C3_ImmutableVisibleIffWritten ==
    (RenderedAtBlock /\ table.immutable) =>
        \A v \in Blocks :
            Selects(out.sql, table, BlockRow(v)) <=> v <= out.expr.block

C3_Witness ==
    /\ RenderedAtBlock /\ table.immutable /\ out.expr.block = 1
    /\ Selects(out.sql, table, BlockRow(1))
    /\ ~Selects(out.sql, table, BlockRow(2))

\* C4: for an immutable table AtBlock at BLOCK_NUMBER_MAX renders exactly
\* the text true, with no table or column reference and no bind parameter,
\* whatever filters_by_id, is_account_like and the override are.
C4_ImmutableLatestIsTrue ==
    (RenderedAtBlock /\ table.immutable /\ out.expr.block = BLOCK_NUMBER_MAX) =>
        /\ out.sql = << Sql("true") >>
        /\ Binds(out.sql) = << >>

C4_Witness ==
    /\ RenderedAtBlock /\ table.immutable /\ out.expr.block = BLOCK_NUMBER_MAX
    /\ out.expr.filters_by_id /\ table.is_account_like
    /\ use_brin_for_all_query_types
    /\ out.sql = << Sql("true") >>

\* C5: for a mutable table the two hint conjuncts are appended if and only
\* if the table is account-like, the block is not BLOCK_NUMBER_MAX and
\* (filters_by_id is false or the override is set); otherwise exactly the
\* containment test is rendered.
C5_HintsIffAllThree ==
    (RenderedAtBlock /\ ~table.immutable) =>
        LET hinted ==
                /\ table.is_account_like
                /\ out.expr.block # BLOCK_NUMBER_MAX
                /\ (~out.expr.filters_by_id \/ use_brin_for_all_query_types)
        IN  IF hinted
            THEN /\ Len(out.sql) = 15
                 /\ SubSeq(out.sql, 1, 7) = ContainmentTest
                 /\ out.sql[8] = Sql(" and coalesce(upper(")
                 /\ out.sql[12] = Sql(" and lower(")
            ELSE out.sql = ContainmentTest

C5_Witness ==
    /\ RenderedAtBlock /\ ~table.immutable /\ table.is_account_like
    /\ out.expr.filters_by_id /\ use_brin_for_all_query_types
    /\ out.expr.block = 0
    /\ Len(out.sql) = 15

\* C6: for a mutable, account-like table, at_block(b) with finite b and no
\* id filter renders T.block_range @> b and coalesce(upper(T.block_range),
\* 2147483647) > b and lower(T.block_range) <= b: three conjuncts in this
\* order, every occurrence of the range column qualified by the table as in
\* the containment test, and b bound three times as a 32-bit integer.
C6_HintsQualifiedByTable ==
    ( /\ RenderedAtBlock /\ ~table.immutable /\ table.is_account_like
      /\ out.expr.block # BLOCK_NUMBER_MAX /\ ~out.expr.filters_by_id ) =>
        LET b == Bind("Integer", out.expr.block)
        IN  /\ out.sql =
                 QualifiedRange \o << Sql(" @> "), b >> \o
                 << Sql(" and coalesce(upper(") >> \o QualifiedRange \o
                 << Sql("), 2147483647) > "), b >> \o
                 << Sql(" and lower(") >> \o QualifiedRange \o
                 << Sql(") <= "), b >>
            /\ Binds(out.sql) = << b, b, b >>

\* C7: for a mutable, account-like table, at_block(b) with finite b renders
\* only the containment test when filters_by_id was called on the builder
\* and the override is not set.
C7_IdFilterSuppressesHints ==
    ( /\ RenderedAtBlock /\ ~table.immutable /\ table.is_account_like
      /\ out.expr.block # BLOCK_NUMBER_MAX
      /\ out.expr.filters_by_id /\ ~use_brin_for_all_query_types ) =>
        /\ out.sql = ContainmentTest
        /\ Binds(out.sql) = << Bind("Integer", out.expr.block) >>

C7_Witness ==
    /\ RenderedAtBlock /\ ~table.immutable /\ table.is_account_like
    /\ out.expr.block = 2
    /\ out.expr.filters_by_id /\ ~use_brin_for_all_query_types
    /\ out.sql = ContainmentTest

\* ------------------------------------ claims on BelongsToCausalityRegion

\* C8: BelongsToCausalityRegion renders the constant true with no bind
\* parameter for every region when the table has no causality region, and
\* otherwise <table>.causality_region = $cr with the region bound once; the
\* choice depends on has_causality_region alone.
C8_CausalityRegionByFlagOnly ==
    (out.expr.tag = "BelongsToCausalityRegion") =>
        IF table.has_causality_region
        THEN /\ out.sql = Table_walk_ast(table) \o
                    << Sql(".causality_region"), Sql(" = "),
                       Bind("Integer", out.expr.cr) >>
             /\ Binds(out.sql) = << Bind("Integer", out.expr.cr) >>
        ELSE /\ out.sql = << Sql("true") >>
             /\ Binds(out.sql) = << >>

C8_Witness ==
    /\ out.expr.tag = "BelongsToCausalityRegion"
    /\ ~table.has_causality_region
    /\ out.expr.cr = 1
    /\ out.sql = << Sql("true") >>

\* ------------------------------- claims on selected_columns / select_cols

\* The select-list entry f is the one select_cols builds for column c.
EntryRefersTo(f, c) ==
    IF f.k = "column" THEN f.column.name = c.name
    ELSE IF c.name = TYPENAME
    THEN f.text = << "'", table.typename, "' as __typename" >>
    ELSE f.text = << table.qualified_name, ".", c.name, "::text" >>

\* select_cols was called with the list selected_columns returned.
SelectColsCalled == cols.tag = "called" /\ selection # NoSelection

\* C9: select_cols emits exactly one select-list entry per element of the
\* column list it is given, in the same order: for every list produced by
\* selected_columns the i-th entry refers to the i-th column of the list.
C9_OneEntryPerColumnInOrder ==
    SelectColsCalled =>
        /\ selection.tag = "Ok"
        /\ Len(selection.fields) = Len(cols.result.cols)
        /\ \A i \in DOMAIN cols.result.cols :
               EntryRefersTo(selection.fields[i], cols.result.cols[i])

\* selected_columns returned a list for a Select request.
SelectReturnedList ==
    /\ cols.tag = "called"
    /\ cols.column_names.tag = "Select"
    /\ cols.result.tag = "Ok"

\* C10 as stated: for every Select(names) request and every decoding
\* contract the list selected_columns returns begins with the primary key
\* column id.
C10_SelectBeginsWithPrimaryKey ==
    SelectReturnedList =>
        /\ Len(cols.result.cols) >= 1
        /\ cols.result.cols[1] = primary_key(table)

\* C10 as amended: for every Select(names) request, whether or not id is in
\* names, the list selected_columns returns begins with the primary key
\* column id when the decoding contract needs no internal keys, and with
\* __typename directly followed by id when it does.
C10_SelectPrimaryKeyLeadsAttributes ==
    SelectReturnedList =>
        IF cols.WITH_INTERNAL_KEYS
        THEN /\ Len(cols.result.cols) >= 2
             /\ cols.result.cols[1] = TYPENAME_COL
             /\ cols.result.cols[2] = primary_key(table)
             /\ primary_key(table).name = ID
        ELSE /\ Len(cols.result.cols) >= 1
             /\ cols.result.cols[1] = primary_key(table)
             /\ primary_key(table).name = ID

C10_Witness ==
    /\ SelectReturnedList
    /\ ~cols.WITH_INTERNAL_KEYS
    /\ cols.column_names.names = {"zeta"}
    /\ cols.result.cols[1].name = ID
    /\ cols.result.cols[2].name = "zeta"

\* selected_columns returned a list.
ReturnedList == cols.tag = "called" /\ cols.result.tag = "Ok"

\* The requested names other than the id field.
NonIdNames == cols.column_names.names \ {ID}

\* The number of columns that precede the attribute columns.
LeadingCols == IF cols.WITH_INTERNAL_KEYS THEN 1 ELSE 0

\* The positions of the list that hold a column of the given name.
PositionsOf(name) ==
    { i \in DOMAIN cols.result.cols : cols.result.cols[i].name = name }

\* C11: the list selected_columns returns never holds the same column
\* twice: for Select(names) each requested attribute appears once and the
\* primary key exactly once, Select(names with id) returns what
\* Select(names without id) returns, and for All the primary key appears
\* exactly once.
C11_NoColumnTwice ==
    /\ ReturnedList =>
        /\ \A i, j \in DOMAIN cols.result.cols :
               cols.result.cols[i].name = cols.result.cols[j].name => i = j
        /\ Cardinality(PositionsOf(ID)) = 1
        /\ cols.column_names.tag = "Select" =>
               \A n \in NonIdNames :
                   Cardinality({ i \in DOMAIN cols.result.cols :
                                   cols.result.cols[i].field = n }) = 1
    /\ (cols.tag = "called" /\ cols.column_names.tag = "Select"
            /\ ID \in cols.column_names.names) =>
        \A iter \in IterationOrders(NonIdNames) :
            cols.result =
                selected_columns(table, cols.WITH_INTERNAL_KEYS,
                                 cols.WITH_SYSTEM_COLUMNS,
                                 [tag |-> "Select", names |-> NonIdNames],
                                 iter, cols.parent_type)

C11_Witness ==
    /\ ReturnedList
    /\ cols.column_names.tag = "Select"
    /\ cols.column_names.names = {"id", "zeta"}
    /\ ~cols.WITH_INTERNAL_KEYS /\ ~cols.WITH_SYSTEM_COLUMNS
    /\ Len(cols.result.cols) = 2
    /\ cols.result.cols[1].name = ID
    /\ cols.result.cols[2].name = "zeta"

\* The requestable names in ascending order of their bytes.
ByteOrder == << "Owner", "alpha", "id", "nope", "zeta" >>

RankOf(name) == CHOOSE i \in DOMAIN ByteOrder : ByteOrder[i] = name

\* The names of the pseudo-columns that may follow the attribute columns.
TrailingNames == {PARENT_ID, "vid", BLOCK_COLUMN, BLOCK_RANGE_COLUMN}

\* C12: for Select(names) the columns after the primary key and before any
\* parent-id or system column are the columns of the requested non-id names
\* in ascending lexicographic order of the names, whatever the order in
\* which the names were supplied.
C12_SelectedNamesSorted ==
    SelectReturnedList =>
        LET l == cols.result.cols
            first == LeadingCols + 2
            last == LeadingCols + 1 + Cardinality(NonIdNames)
        IN  /\ Len(l) >= last
            /\ { l[i].field : i \in first..last } = NonIdNames
            /\ \A i, j \in first..last :
                   i < j => RankOf(l[i].field) < RankOf(l[j].field)
            /\ \A i \in (last + 1)..Len(l) : l[i].name \in TrailingNames

C12_Witness ==
    /\ SelectReturnedList
    /\ cols.column_names.names = {"zeta", "alpha"}
    /\ ~cols.WITH_INTERNAL_KEYS /\ cols.WITH_SYSTEM_COLUMNS
    /\ Len(cols.result.cols) = 5
    /\ cols.result.cols[2].name = "alpha"
    /\ cols.result.cols[3].name = "zeta"
    /\ cols.result.cols[4].name = "vid"

\* The fields the table declares a column for.
DeclaredFields == { table.columns[i].field : i \in DOMAIN table.columns }

\* C13: if a name of Select(names) other than the id field resolves to no
\* column of the table, selected_columns returns an error naming such a
\* name and no column list, however many other names resolve and wherever
\* the bad name sorts.
C13_UnknownNameIsError ==
    (cols.tag = "called" /\ cols.column_names.tag = "Select"
        /\ NonIdNames \ DeclaredFields # {}) =>
        /\ cols.result.tag = "Err"
        /\ DOMAIN cols.result = {"tag", "unknown_field"}
        /\ cols.result.unknown_field \in NonIdNames \ DeclaredFields

C13_Witness ==
    /\ cols.tag = "called" /\ cols.column_names.tag = "Select"
    /\ cols.column_names.names = {"alpha", "nope"}
    /\ "alpha" \in DeclaredFields
    /\ cols.result.tag = "Err"
    /\ cols.result.unknown_field = "nope"

\* The positions of the list that hold a system column.
SystemPositions ==
    PositionsOf("vid") \cup PositionsOf(BLOCK_COLUMN) \cup PositionsOf(BLOCK_RANGE_COLUMN)

\* C14: for an All request selected_columns never fails and returns every
\* declared column exactly once and in declaration order, after the
\* optional type-name column and before the optional parent-id and system
\* columns.
C14_AllInDeclarationOrder ==
    (cols.tag = "called" /\ cols.column_names.tag = "All") =>
        /\ cols.result.tag = "Ok"
        /\ LET l == cols.result.cols
               n == Len(table.columns)
           IN  /\ Len(l) >= LeadingCols + n
               /\ SubSeq(l, LeadingCols + 1, LeadingCols + n) = table.columns
               /\ \A i \in 1..LeadingCols : l[i].name = TYPENAME
               /\ \A i \in (LeadingCols + n + 1)..Len(l) : l[i].name \in TrailingNames
               /\ \A k \in DOMAIN table.columns :
                      Cardinality(PositionsOf(table.columns[k].name)) = 1

C14_Witness ==
    /\ ReturnedList /\ cols.column_names.tag = "All"
    /\ cols.WITH_INTERNAL_KEYS /\ cols.WITH_SYSTEM_COLUMNS
    /\ cols.parent_type = "Bytes"
    /\ Len(table.columns) = 3 /\ ~table.immutable
    /\ Len(cols.result.cols) = 7
    /\ cols.result.cols[2].name = "zeta"
    /\ cols.result.cols[3].name = ID
    /\ cols.result.cols[4].name = "kind"

\* C15: when the decoding contract needs internal keys the __typename
\* column is the first element of the list selected_columns returns, for
\* All and for Select; when it does not, __typename is not in the list.
C15_TypenameFirstIffInternalKeys ==
    ReturnedList =>
        IF cols.WITH_INTERNAL_KEYS
        THEN /\ Len(cols.result.cols) >= 1
             /\ cols.result.cols[1] = TYPENAME_COL
             /\ PositionsOf(TYPENAME) = {1}
        ELSE PositionsOf(TYPENAME) = {}

C15_Witness ==
    /\ SelectReturnedList /\ cols.WITH_INTERNAL_KEYS
    /\ cols.column_names.names = {"zeta"}
    /\ cols.parent_type = "None" /\ ~cols.WITH_SYSTEM_COLUMNS
    /\ Len(cols.result.cols) = 3
    /\ cols.result.cols[1].name = TYPENAME
    /\ cols.result.cols[3].name = "zeta"

\* C16: selected_columns appends exactly one parent-id column, the one
\* whose storage kind equals the supplied parent kind, if and only if a
\* parent kind is supplied and the decoding contract needs internal keys;
\* it comes after all attribute columns and before any system column.
C16_ParentIdIffInternalKeysAndParent ==
    ReturnedList =>
        LET l == cols.result.cols
            p == Len(l) - Cardinality(SystemPositions)
        IN  IF cols.WITH_INTERNAL_KEYS /\ cols.parent_type # "None"
            THEN /\ PositionsOf(PARENT_ID) = {p}
                 /\ l[p] = pseudo_column(PARENT_ID, cols.parent_type)
                 /\ l[p] = CASE cols.parent_type = "String" -> PARENT_STRING_COL
                             [] cols.parent_type = "Bytes" -> PARENT_BYTES_COL
                             [] cols.parent_type = "Int8" -> PARENT_INT_COL
                 /\ \A i \in 1..(p - 1) : l[i].name \notin TrailingNames
                 /\ \A i \in (p + 1)..Len(l) : i \in SystemPositions
            ELSE PositionsOf(PARENT_ID) = {}

C16_Witness ==
    /\ SelectReturnedList /\ cols.WITH_INTERNAL_KEYS /\ cols.WITH_SYSTEM_COLUMNS
    /\ cols.parent_type = "Int8"
    /\ cols.column_names.names = {"alpha"}
    /\ Len(cols.result.cols) = 6
    /\ cols.result.cols[3].name = "alpha"
    /\ cols.result.cols[4] = PARENT_INT_COL
    /\ cols.result.cols[5].name = "vid"

\* C17: when the decoding contract needs system columns the list
\* selected_columns returns ends with vid followed by block for an
\* immutable table and by block_range for a mutable one, never both; when
\* it does not, none of vid, block and block_range is in the list.
C17_SystemColumnsLast ==
    ReturnedList =>
        LET l == cols.result.cols
        IN  IF cols.WITH_SYSTEM_COLUMNS
            THEN /\ Len(l) >= 2
                 /\ l[Len(l) - 1] = VID_COL
                 /\ l[Len(l)] = IF table.immutable THEN BLOCK_COL ELSE BLOCK_RANGE_COL
                 /\ SystemPositions = {Len(l) - 1, Len(l)}
            ELSE SystemPositions = {}

C17_Witness ==
    /\ ReturnedList /\ cols.column_names.tag = "All"
    /\ cols.WITH_SYSTEM_COLUMNS /\ ~cols.WITH_INTERNAL_KEYS
    /\ table.immutable
    /\ Len(table.columns) = 2
    /\ Len(cols.result.cols) = 4
    /\ cols.result.cols[3].name = "vid"
    /\ cols.result.cols[4].name = BLOCK_COLUMN

\* select_cols returned the select clause for the list.
SelectClauseBuilt ==
    /\ SelectColsCalled
    /\ selection.tag = "Ok"
    /\ Len(selection.fields) = Len(cols.result.cols)

\* The text cast select_cols has to emit for an Enum column c.
EnumCast(c) ==
    [k |-> "sql", st |-> "Text",
     wrap |-> CASE c.is_list /\ c.is_nullable -> "Nullable<Array<ST>>"
                [] c.is_list /\ ~c.is_nullable -> "Array<ST>"
                [] ~c.is_list /\ c.is_nullable -> "Nullable<ST>"
                [] ~c.is_list /\ ~c.is_nullable -> "ST",
     text |-> << table.qualified_name, ".", c.name, "::text" >>]

\* C18: select_cols renders every Enum column as the raw text cast
\* <qualified table>.<column>::text, typed as text and wrapped by the
\* column's is_list/is_nullable flags, never as a typed column reference.
C18_EnumAsTextCast ==
    ReturnedList =>
        \A i \in DOMAIN cols.result.cols :
            LET c == cols.result.cols[i]
            IN  c.column_type = "Enum" =>
                    /\ select_col(table, c) = [tag |-> "Ok", field |-> EnumCast(c)]
                    /\ SelectClauseBuilt => selection.fields[i] = EnumCast(c)

C18_Witness ==
    /\ SelectClauseBuilt
    /\ \E i \in DOMAIN cols.result.cols :
        /\ cols.result.cols[i].name = "roles"
        /\ cols.result.cols[i].column_type = "Enum"
        /\ selection.fields[i].k = "sql"
        /\ selection.fields[i].wrap = "Array<ST>"
        /\ selection.fields[i].text[3] = "roles"
        /\ selection.fields[i].text[4] = "::text"

\* The base wire type of each column kind but Enum.
WireType(column_type) ==
    CASE column_type = "Boolean" -> "Bool"
      [] column_type = "BigDecimal" -> "Numeric"
      [] column_type = "BigInt" -> "Numeric"
      [] column_type = "Bytes" -> "Binary"
      [] column_type = "Int" -> "Integer"
      [] column_type = "Int8" -> "BigInt"
      [] column_type = "Timestamp" -> "Timestamptz"
      [] column_type = "String" -> "Text"
      [] column_type = "TSVector" -> "Text"

\* The column kinds but Enum.
TypedKinds ==
    {"Boolean", "BigDecimal", "BigInt", "Bytes", "Int", "Int8", "Timestamp",
     "String", "TSVector"}

\* C19: for every column kind but Enum select_cols selects the column with
\* the fixed base wire type of the kind (Boolean bool, BigDecimal and BigInt
\* numeric, Bytes binary, Int integer, Int8 bigint, Timestamp timestamptz,
\* String and TSVector text), whatever the column's name and flags.
C19_WireTypeByKind ==
    ReturnedList =>
        \A i \in DOMAIN cols.result.cols :
            LET c == cols.result.cols[i]
                one == select_col(table, c)
            IN  (c.column_type # "Enum" /\ c.name # TYPENAME) =>
                    /\ c.column_type \in TypedKinds
                    /\ one.tag = "Ok" =>
                           /\ one.field.k = "column"
                           /\ one.field.st = WireType(c.column_type)
                    /\ SelectClauseBuilt =>
                           /\ selection.fields[i].k = "column"
                           /\ selection.fields[i].st = WireType(c.column_type)

C19_Witness ==
    /\ SelectClauseBuilt
    /\ { cols.result.cols[i].column_type : i \in DOMAIN cols.result.cols }
           = TypedKinds \cup {"Enum"}
    /\ \E i \in DOMAIN cols.result.cols :
        /\ cols.result.cols[i].column_type = "BigInt"
        /\ selection.fields[i].st = "Numeric"
    /\ \E i \in DOMAIN cols.result.cols :
        /\ cols.result.cols[i].column_type = "TSVector"
        /\ selection.fields[i].st = "Text"

\* ------------------------------------------------------- claims on IdEq

\* C20: IdEq renders <table>.id = $id with exactly one bind parameter,
\* typed by the Id variant alone (String text, Bytes binary, Int8 bigint);
\* nothing is checked against the kind of the table's id column, so every
\* pair of a table and an Id renders.
C20_IdEqBindsByVariant ==
    (out.expr.tag = "IdEq") =>
        LET id == out.expr.id
            b == CASE id.variant = "String" -> Bind("Text", id.s)
                   [] id.variant = "Bytes" -> Bind("Binary", id.s)
                   [] id.variant = "Int8" -> Bind("BigInt", id.i)
        IN  /\ out.sql = Table_walk_ast(table) \o << Sql(".id = "), b >>
            /\ Binds(out.sql) = << b >>

C20_Witness ==
    /\ out.expr.tag = "IdEq"
    /\ out.expr.id.variant = "Int8"
    /\ primary_key(table).column_type = "String"
    /\ Len(out.sql) = 5
    /\ out.sql[5] = Bind("BigInt", 7)

\* --------------------------------------- further claims on select_cols

\* plain, nullable, array or nullable array, by the two flags of c.
FourWay(c) ==
    IF c.is_list
    THEN IF c.is_nullable THEN "Nullable<Array<ST>>" ELSE "Array<ST>"
    ELSE IF c.is_nullable THEN "Nullable<ST>" ELSE "ST"

\* The flag pairs of the columns of the returned list whose entry is of
\* kind k ("column" for a typed column, "sql" for an Enum text cast).
FlagPairsOf(k) ==
    { << cols.result.cols[i].is_list, cols.result.cols[i].is_nullable >> :
        i \in { j \in DOMAIN cols.result.cols :
                  /\ cols.result.cols[j].name # TYPENAME
                  /\ selection.fields[j].k = k } }

\* C22: select_cols wraps the entry of a typed column by the pair
\* (is_list, is_nullable) alone: plain, nullable, array, nullable array,
\* whatever the base type is; Enum text casts are wrapped the same way.
C22_WrapperByFlagsOnly ==
    ReturnedList =>
        \A i \in DOMAIN cols.result.cols :
            LET c == cols.result.cols[i]
                one == select_col(table, c)
            IN  c.name # TYPENAME =>
                    /\ one.tag = "Ok" => one.field.wrap = FourWay(c)
                    /\ SelectClauseBuilt =>
                           /\ selection.fields[i].wrap = FourWay(c)
                           /\ selection.fields[i].k =
                                  IF c.column_type = "Enum" THEN "sql" ELSE "column"

C22_Witness ==
    /\ SelectClauseBuilt
    /\ FlagPairsOf("column") = BOOLEAN \X BOOLEAN
    /\ FlagPairsOf("sql") = BOOLEAN \X BOOLEAN
    /\ \E i, j \in DOMAIN cols.result.cols :
        /\ cols.result.cols[i].name = "tags" /\ cols.result.cols[j].name = "kinds"
        /\ selection.fields[i].wrap = "Nullable<Array<ST>>"
        /\ selection.fields[j].wrap = "Nullable<Array<ST>>"
        /\ selection.fields[i].st = "Text" /\ selection.fields[i].k = "column"

\* The literal select_cols emits for the type name.
TypenameLiteral ==
    [k |-> "sql", st |-> "Text", wrap |-> "ST",
     text |-> << "'", table.typename, "' as __typename" >>]

\* C23: for a column named __typename select_cols emits the literal
\* '<typename>' as __typename, typed as plain text, without dispatching on
\* the column's kind: the name alone decides, whatever kind and flags the
\* column carries.
C23_TypenameLiteralByName ==
    /\ ReturnedList =>
        \A i \in DOMAIN cols.result.cols :
            cols.result.cols[i].name = TYPENAME =>
                /\ select_col(table, cols.result.cols[i])
                       = [tag |-> "Ok", field |-> TypenameLiteral]
                /\ SelectClauseBuilt => selection.fields[i] = TypenameLiteral
    /\ \A kind \in TypedKinds \cup {"Enum"}, l \in BOOLEAN, n \in BOOLEAN :
        select_col(table, Col(TYPENAME, TYPENAME, kind, l, n))
            = [tag |-> "Ok", field |-> TypenameLiteral]

C23_Witness ==
    /\ SelectClauseBuilt
    /\ Len(cols.result.cols) >= 3
    /\ cols.result.cols[1] = TYPENAME_COL
    /\ selection.fields[1] = TypenameLiteral
    /\ selection.fields[1].text[2] = "Token"
    /\ selection.fields[2].k = "column"

\* C26: select_cols completes for every column list selected_columns can
\* return, the lists with the parent-id, block and block_range
\* pseudo-columns included: Table::column resolves every column of the list.
C26_SelectColsCompletes ==
    ReturnedList =>
        /\ \A i \in DOMAIN cols.result.cols :
               Table_column(table, cols.result.cols[i].name).tag = "Some"
        /\ SelectColsCalled => selection.tag = "Ok"

\* ------------------------------------------- further claims on AtBlock

\* "nsp"."table"."block"
QualifiedBlock == Table_walk_ast(table) \o << Sql("."), Ident(BLOCK_COLUMN) >>

UpperHint ==
    << Sql(" and coalesce(upper("), Ident(BLOCK_RANGE_COLUMN),
       Sql("), 2147483647) > "), Bind("Integer", out.expr.block) >>

\* C25: for a mutable, account-like table at block BLOCK_NUMBER_MAX AtBlock
\* renders the containment test alone; the first hint conjunct is false
\* there on a row with an unbounded upper bound although the row's range
\* contains the block, and every row with lower <= BLOCK_NUMBER_MAX and an
\* unbounded upper bound satisfies the rendered predicate.
C25_NoHintsAtBlockNumberMax ==
    ( /\ RenderedAtBlock /\ ~table.immutable /\ table.is_account_like
      /\ out.expr.block = BLOCK_NUMBER_MAX ) =>
        /\ out.sql = ContainmentTest
        /\ \A r \in Ranges :
            (r.inf /\ r.lo <= BLOCK_NUMBER_MAX) =>
                /\ RangeContains(r, BLOCK_NUMBER_MAX) = "T"
                /\ EvalSql(UpperHint, table, RangeRow(r)) = "F"
                /\ Selects(out.sql, table, RangeRow(r))

C25_Witness ==
    /\ RenderedAtBlock /\ ~table.immutable /\ table.is_account_like
    /\ out.expr.block = BLOCK_NUMBER_MAX
    /\ ~out.expr.filters_by_id
    /\ Len(out.sql) = 7
    /\ Selects(out.sql, table,
               RangeRow([lo |-> BLOCK_NUMBER_MAX, hi |-> BLOCK_NUMBER_MAX,
                         inf |-> TRUE]))

\* An account-like mutable table and a finite block: the hints are due
\* unless the builder was told of an id filter.
HintsDue(self) ==
    /\ ~table.immutable /\ table.is_account_like
    /\ self.block < BLOCK_NUMBER_MAX

\* C27: a new AtBlock starts with filters_by_id = false; only a call of
\* AtBlock::filters_by_id sets the flag, and the flag then stays set as long
\* as the builder lives, further calls of filters_by_id included; rendering
\* an IdEq in the same query changes neither the builder nor what it renders.
C27_FiltersByIdOnlyByCall ==
    [][ /\ TableAtBlock => (at_block'.tag = "AtBlock" /\ ~at_block'.filters_by_id)
        /\ ( /\ at_block'.tag = "AtBlock" /\ at_block'.filters_by_id
             /\ at_block' # at_block ) => FiltersById
        /\ FiltersById => at_block'.filters_by_id
        /\ ( /\ at_block.tag = "AtBlock" /\ at_block.filters_by_id
             /\ ~TableAtBlock ) => at_block' = at_block
        /\ IdEqWalkAst =>
               /\ at_block' = at_block
               /\ at_block.tag = "AtBlock" =>
                      AtBlock_walk_ast(at_block', table', use_brin_for_all_query_types')
                          = AtBlock_walk_ast(at_block, table, use_brin_for_all_query_types)
        /\ ( /\ out.expr.tag = "IdEq" /\ out'.expr.tag = "AtBlock"
             /\ ~out'.expr.filters_by_id /\ HintsDue(out'.expr) ) =>
               Len(out'.sql) = 15
      ]_vars

C27_Witness ==
    /\ out.expr.tag = "IdEq"
    /\ at_block.tag = "AtBlock" /\ at_block.filters_by_id
    /\ HintsDue(at_block) /\ ~use_brin_for_all_query_types
    /\ AtBlock_walk_ast(at_block, table, use_brin_for_all_query_types)
           = Table_walk_ast(table) \o
             << Sql("."), Ident(BLOCK_RANGE_COLUMN), Sql(" @> "),
                Bind("Integer", at_block.block) >>

\* ------------------------------------------------------- new_block_stream

BUFFERED_BLOCK_STREAM_SIZE == 100

BUFFERED_FIREHOSE_STREAM_SIZE == 1

\* What store.block_ptr() may return.
BlockPtrs ==
    { [tag |-> "None"] } \cup { [tag |-> "Some", number |-> n] : n \in 0..MaxBlock }

\* What store.block_cursor() may return.
FirehoseCursors == { [tag |-> "None"], [tag |-> "Some", cursor |-> "c1"] }

\* The deployment's store, as far as new_block_stream reads it.
Stores == [ block_ptr : BlockPtrs, block_cursor : FirehoseCursors ]

\* What the single caller, the concurrent callers and the schema conversion
\* hold: no step of new_block_stream touches it.
not_stream ==
    << table, use_brin_for_all_query_types, at_block, out, cols, selection,
       threads, schema >>

\* buffer_size with the two sizes exchanged.
buffer_size_swapped(is_firehose) ==
    IF is_firehose THEN BUFFERED_BLOCK_STREAM_SIZE ELSE BUFFERED_FIREHOSE_STREAM_SIZE

\* let buffer_size = match is_firehose { ... }
buffer_size(is_firehose) ==
    IF is_firehose THEN BUFFERED_FIREHOSE_STREAM_SIZE ELSE BUFFERED_BLOCK_STREAM_SIZE

\* BlockStreamManager::new calls new_block_stream, which runs up to the
\* match on is_firehose: the chain is asked, the buffer size chosen.
BlockStreamManagerNew ==
    /\ stream.pc \in {"idle", "done", "failed"}
    /\ \E firehose \in BOOLEAN, store \in Stores :
        stream' = [pc |-> "called",
                   is_firehose |-> firehose,
                   store |-> store,
                   buffer_size |-> buffer_size(firehose),
                   log |-> << >>,
                   spawned |-> [tag |-> "None"],
                   result |-> [tag |-> "None"]]
    /\ UNCHANGED not_stream

\* Some writer moves the store while the call is in progress.
StoreAdvances ==
    /\ stream.pc \in {"called", "read", "awaiting"}
    /\ \E store \in Stores :
        /\ store # stream.store
        /\ stream' = [stream EXCEPT !.store = store]
    /\ UNCHANGED not_stream

\* The argument read from the store: block_cursor() on the firehose path,
\* block_ptr() on the polling path.
StreamReadsStore ==
    /\ stream.pc = "called"
    /\ stream' = [stream EXCEPT
          !.pc = "read",
          !.log = Append(@,
                    IF stream.is_firehose
                    THEN [ev |-> "block_cursor", val |-> stream.store.block_cursor]
                    ELSE [ev |-> "block_ptr", val |-> stream.store.block_ptr])]
    /\ UNCHANGED not_stream

\* chain.new_firehose_block_stream or chain.new_polling_block_stream is
\* called with the value read.
StreamCreatesUpstream ==
    /\ stream.pc = "read"
    /\ stream' = [stream EXCEPT
          !.pc = "awaiting",
          !.log = Append(@,
                    [ev |-> IF stream.is_firehose
                            THEN "new_firehose_block_stream"
                            ELSE "new_polling_block_stream",
                     val |-> stream.log[Len(stream.log)].val])]
    /\ UNCHANGED not_stream

\* .await?: the chain answers with the upstream stream, which is wrapped by
\* BufferedBlockStream::spawn_from_stream and made cancelable by the
\* manager, or with an error, which is returned.
StreamAwaits ==
    /\ stream.pc = "awaiting"
    /\ \E created \in BOOLEAN :
        stream' =
            IF created
            THEN [stream EXCEPT
                    !.pc = "done",
                    !.spawned = [tag |-> "Some",
                                 size |-> stream.buffer_size,
                                 upstream |-> stream.log[Len(stream.log)]],
                    !.result = [tag |-> "Ok", cancelable |-> TRUE]]
            ELSE [stream EXCEPT !.pc = "failed", !.result = [tag |-> "Err"]]
    /\ UNCHANGED not_stream

NextStream ==
    \/ BlockStreamManagerNew
    \/ StoreAdvances
    \/ StreamReadsStore
    \/ StreamCreatesUpstream
    \/ StreamAwaits

SpecStream == Init /\ [][NextStream]_vars

\* ------------------------------------------- compact schema documents

\* iter().map(F).collect() on a Vec
MapSeq(F(_), seq) == [i \in 1..Len(seq) |-> F(seq[i])]

\* Option::map
MapOption(F(_), opt) ==
    IF opt.tag = "None" THEN [tag |-> "None"]
    ELSE [tag |-> "Some", val |-> F(opt.val)]

\* The Compactor, a unit struct.
Compactor == [compactor |-> "Compactor"]

\* fn word: the Word made from the text of a name
word(t) == [word |-> t]

\* Compactor::word
Compactor_word(cpt, t) == [word |-> t]

\* impl From<ps::Type> for Type
RECURSIVE Type_from(_)
Type_from(ty) ==
    CASE ty.kind = "NamedType" -> [tag |-> "NamedType", name |-> word(ty.name)]
      [] ty.kind = "ListType" -> [tag |-> "ListType", of |-> Type_from(ty.of)]
      [] ty.kind = "NonNullType" -> [tag |-> "NonNullType", of |-> Type_from(ty.of)]

\* impl From<ps::Value> for Value
RECURSIVE Value_from(_)
Value_from(val) ==
    CASE val.kind = "Variable" -> [tag |-> "Variable", name |-> word(val.name)]
      [] val.kind = "Int" -> [tag |-> "Int", number |-> val.number]
      [] val.kind = "Float" -> [tag |-> "Float", float |-> val.float]
      [] val.kind = "String" -> [tag |-> "String", string |-> val.string]
      [] val.kind = "Boolean" -> [tag |-> "Boolean", bool |-> val.bool]
      [] val.kind = "Null" -> [tag |-> "Null"]
      [] val.kind = "Enum" -> [tag |-> "Enum", name |-> word(val.name)]
      [] val.kind = "List" ->
             [tag |-> "List", list |-> MapSeq(Value_from, val.list)]
      [] val.kind = "Object" ->
             [tag |-> "Object",
              object |-> { << word(kv[1]), Value_from(kv[2]) >> : kv \in val.object }]

\* impl From<s::DirectiveLocation> for DirectiveLocation
DirectiveLocation_from(loc) ==
    CASE loc = "s::Query" -> "Query"
      [] loc = "s::Mutation" -> "Mutation"
      [] loc = "s::Subscription" -> "Subscription"
      [] loc = "s::Field" -> "Field"
      [] loc = "s::FragmentDefinition" -> "FragmentDefinition"
      [] loc = "s::FragmentSpread" -> "FragmentSpread"
      [] loc = "s::InlineFragment" -> "InlineFragment"
      [] loc = "s::Schema" -> "Schema"
      [] loc = "s::Scalar" -> "Scalar"
      [] loc = "s::Object" -> "Object"
      [] loc = "s::FieldDefinition" -> "FieldDefinition"
      [] loc = "s::ArgumentDefinition" -> "ArgumentDefinition"
      [] loc = "s::Interface" -> "Interface"
      [] loc = "s::Union" -> "Union"
      [] loc = "s::Enum" -> "Enum"
      [] loc = "s::EnumValue" -> "EnumValue"
      [] loc = "s::InputObject" -> "InputObject"
      [] loc = "s::InputFieldDefinition" -> "InputFieldDefinition"

\* impl From<ps::Directive> for Directive
Directive_from(dir) ==
    [name |-> word(dir.name),
     arguments |-> MapSeq(LAMBDA kv : << word(kv[1]), Value_from(kv[2]) >>,
                          dir.arguments)]

\* impl Compact<ps::Directive> for Directive
Directive_compact(dir, cpt) ==
    [name |-> Compactor_word(cpt, dir.name),
     arguments |-> MapSeq(LAMBDA kv : << Compactor_word(cpt, kv[1]),
                                         Value_from(kv[2]) >>,
                          dir.arguments)]

\* impl From<ps::InputValue> for InputValue
InputValue_from(val) ==
    [name |-> word(val.name),
     value_type |-> Type_from(val.value_type),
     default_value |-> MapOption(Value_from, val.default_value),
     directives |-> MapSeq(Directive_from, val.directives)]

\* impl Compact<ps::InputValue> for InputValue
InputValue_compact(val, cpt) ==
    [name |-> Compactor_word(cpt, val.name),
     value_type |-> Type_from(val.value_type),
     default_value |-> MapOption(Value_from, val.default_value),
     directives |-> MapSeq(LAMBDA dir : Directive_compact(dir, cpt), val.directives)]

\* impl From<ps::Field> for Field
Field_from(field) ==
    [name |-> word(field.name),
     arguments |-> MapSeq(InputValue_from, field.arguments),
     field_type |-> Type_from(field.field_type),
     directives |-> MapSeq(Directive_from, field.directives)]

\* Field_compact with the arguments left out.
Field_compact_no_arguments(field, cpt) ==
    [name |-> Compactor_word(cpt, field.name),
     arguments |-> << >>,
     field_type |-> Type_from(field.field_type),
     directives |-> MapSeq(LAMBDA dir : Directive_compact(dir, cpt), field.directives)]

\* impl Compact<ps::Field> for Field
Field_compact(field, cpt) ==
    [name |-> Compactor_word(cpt, field.name),
     arguments |-> MapSeq(LAMBDA arg : InputValue_compact(arg, cpt), field.arguments),
     field_type |-> Type_from(field.field_type),
     directives |-> MapSeq(LAMBDA dir : Directive_compact(dir, cpt), field.directives)]

\* impl From<ps::EnumValue> for EnumValue
EnumValue_from(val) ==
    [name |-> word(val.name),
     directives |-> MapSeq(Directive_from, val.directives)]

\* impl Compact<ps::EnumValue> for EnumValue
EnumValue_compact(val, cpt) ==
    [name |-> Compactor_word(cpt, val.name),
     directives |-> MapSeq(LAMBDA dir : Directive_compact(dir, cpt), val.directives)]

\* impl From<s::ScalarType> for ScalarType
ScalarType_from(scalar) ==
    [name |-> word(scalar.name),
     directives |-> MapSeq(Directive_from, scalar.directives)]

\* impl Compact<s::ScalarType> for ScalarType
ScalarType_compact(scalar, cpt) ==
    [name |-> Compactor_word(cpt, scalar.name),
     directives |-> MapSeq(LAMBDA dir : Directive_compact(dir, cpt), scalar.directives)]

\* impl From<s::ScalarTypeExtension> for ScalarTypeExtension
ScalarTypeExtension_from(ext) ==
    [name |-> word(ext.name),
     directives |-> MapSeq(Directive_from, ext.directives)]

\* impl Compact<s::ScalarTypeExtension> for ScalarTypeExtension
ScalarTypeExtension_compact(ext, cpt) ==
    [name |-> Compactor_word(cpt, ext.name),
     directives |-> MapSeq(LAMBDA dir : Directive_compact(dir, cpt), ext.directives)]

\* impl From<s::ObjectType> for ObjectType
ObjectType_from(obj) ==
    [name |-> word(obj.name),
     implements_interfaces |-> MapSeq(word, obj.implements_interfaces),
     directives |-> MapSeq(Directive_from, obj.directives),
     fields |-> MapSeq(Field_from, obj.fields)]

\* impl Compact<s::ObjectType> for ObjectType
ObjectType_compact(obj, cpt) ==
    [name |-> Compactor_word(cpt, obj.name),
     implements_interfaces |-> MapSeq(LAMBDA name : Compactor_word(cpt, name), obj.implements_interfaces),
     directives |-> MapSeq(LAMBDA dir : Directive_compact(dir, cpt), obj.directives),
     fields |-> MapSeq(LAMBDA field : Field_compact(field, cpt), obj.fields)]

\* impl From<s::ObjectTypeExtension> for ObjectTypeExtension
ObjectTypeExtension_from(ext) ==
    [name |-> word(ext.name),
     implements_interfaces |-> MapSeq(word, ext.implements_interfaces),
     directives |-> MapSeq(Directive_from, ext.directives),
     fields |-> MapSeq(Field_from, ext.fields)]

\* impl Compact<s::ObjectTypeExtension> for ObjectTypeExtension
ObjectTypeExtension_compact(ext, cpt) ==
    [name |-> Compactor_word(cpt, ext.name),
     implements_interfaces |-> MapSeq(LAMBDA name : Compactor_word(cpt, name), ext.implements_interfaces),
     directives |-> MapSeq(LAMBDA dir : Directive_compact(dir, cpt), ext.directives),
     fields |-> MapSeq(LAMBDA field : Field_compact(field, cpt), ext.fields)]

\* impl From<s::InterfaceType> for InterfaceType
InterfaceType_from(int) ==
    [name |-> word(int.name),
     implements_interfaces |-> MapSeq(word, int.implements_interfaces),
     directives |-> MapSeq(Directive_from, int.directives),
     fields |-> MapSeq(Field_from, int.fields)]

\* impl Compact<s::InterfaceType> for InterfaceType
InterfaceType_compact(int, cpt) ==
    [name |-> Compactor_word(cpt, int.name),
     implements_interfaces |-> MapSeq(LAMBDA name : Compactor_word(cpt, name), int.implements_interfaces),
     directives |-> MapSeq(LAMBDA dir : Directive_compact(dir, cpt), int.directives),
     fields |-> MapSeq(LAMBDA field : Field_compact(field, cpt), int.fields)]

\* impl From<s::InterfaceTypeExtension> for InterfaceTypeExtension
InterfaceTypeExtension_from(ext) ==
    [name |-> word(ext.name),
     implements_interfaces |-> MapSeq(word, ext.implements_interfaces),
     directives |-> MapSeq(Directive_from, ext.directives),
     fields |-> MapSeq(Field_from, ext.fields)]

\* impl Compact<s::InterfaceTypeExtension> for InterfaceTypeExtension
InterfaceTypeExtension_compact(ext, cpt) ==
    [name |-> Compactor_word(cpt, ext.name),
     implements_interfaces |-> MapSeq(LAMBDA name : Compactor_word(cpt, name), ext.implements_interfaces),
     directives |-> MapSeq(LAMBDA dir : Directive_compact(dir, cpt), ext.directives),
     fields |-> MapSeq(LAMBDA field : Field_compact(field, cpt), ext.fields)]

\* impl From<s::UnionType> for UnionType
UnionType_from(union) ==
    [name |-> word(union.name),
     directives |-> MapSeq(Directive_from, union.directives),
     types |-> MapSeq(word, union.types)]

\* impl Compact<s::UnionType> for UnionType
UnionType_compact(union, cpt) ==
    [name |-> Compactor_word(cpt, union.name),
     directives |-> MapSeq(LAMBDA dir : Directive_compact(dir, cpt), union.directives),
     types |-> MapSeq(LAMBDA name : Compactor_word(cpt, name), union.types)]

\* impl From<s::UnionTypeExtension> for UnionTypeExtension
UnionTypeExtension_from(ext) ==
    [name |-> word(ext.name),
     directives |-> MapSeq(Directive_from, ext.directives),
     types |-> MapSeq(word, ext.types)]

\* impl Compact<s::UnionTypeExtension> for UnionTypeExtension
UnionTypeExtension_compact(ext, cpt) ==
    [name |-> Compactor_word(cpt, ext.name),
     directives |-> MapSeq(LAMBDA dir : Directive_compact(dir, cpt), ext.directives),
     types |-> MapSeq(LAMBDA name : Compactor_word(cpt, name), ext.types)]

\* impl From<s::EnumType> for EnumType
EnumType_from(enum_type) ==
    [name |-> word(enum_type.name),
     directives |-> MapSeq(Directive_from, enum_type.directives),
     values |-> MapSeq(EnumValue_from, enum_type.values)]

\* impl Compact<s::EnumType> for EnumType
EnumType_compact(enum_type, cpt) ==
    [name |-> Compactor_word(cpt, enum_type.name),
     directives |-> MapSeq(LAMBDA dir : Directive_compact(dir, cpt), enum_type.directives),
     values |-> MapSeq(LAMBDA val : EnumValue_compact(val, cpt), enum_type.values)]

\* impl From<s::EnumTypeExtension> for EnumTypeExtension
EnumTypeExtension_from(ext) ==
    [name |-> word(ext.name),
     directives |-> MapSeq(Directive_from, ext.directives),
     values |-> MapSeq(EnumValue_from, ext.values)]

\* impl Compact<s::EnumTypeExtension> for EnumTypeExtension
EnumTypeExtension_compact(ext, cpt) ==
    [name |-> Compactor_word(cpt, ext.name),
     directives |-> MapSeq(LAMBDA dir : Directive_compact(dir, cpt), ext.directives),
     values |-> MapSeq(LAMBDA val : EnumValue_compact(val, cpt), ext.values)]

\* impl From<s::InputObjectType> for InputObjectType
InputObjectType_from(obj) ==
    [name |-> word(obj.name),
     directives |-> MapSeq(Directive_from, obj.directives),
     fields |-> MapSeq(InputValue_from, obj.fields)]

\* impl Compact<s::InputObjectType> for InputObjectType
InputObjectType_compact(obj, cpt) ==
    [name |-> Compactor_word(cpt, obj.name),
     directives |-> MapSeq(LAMBDA dir : Directive_compact(dir, cpt), obj.directives),
     fields |-> MapSeq(LAMBDA field : InputValue_compact(field, cpt), obj.fields)]

\* impl From<s::InputObjectTypeExtension> for InputObjectTypeExtension
InputObjectTypeExtension_from(ext) ==
    [name |-> word(ext.name),
     directives |-> MapSeq(Directive_from, ext.directives),
     fields |-> MapSeq(InputValue_from, ext.fields)]

\* impl Compact<s::InputObjectTypeExtension> for InputObjectTypeExtension
InputObjectTypeExtension_compact(ext, cpt) ==
    [name |-> Compactor_word(cpt, ext.name),
     directives |-> MapSeq(LAMBDA dir : Directive_compact(dir, cpt), ext.directives),
     fields |-> MapSeq(LAMBDA field : InputValue_compact(field, cpt), ext.fields)]

\* impl From<s::SchemaDefinition> for SchemaDefinition
SchemaDefinition_from(def) ==
    [directives |-> MapSeq(Directive_from, def.directives),
     query |-> MapOption(word, def.query),
     mutation |-> MapOption(word, def.mutation),
     subscription |-> MapOption(word, def.subscription)]

\* impl Compact<s::SchemaDefinition> for SchemaDefinition
SchemaDefinition_compact(def, cpt) ==
    [directives |-> MapSeq(LAMBDA dir : Directive_compact(dir, cpt), def.directives),
     query |-> MapOption(LAMBDA q : Compactor_word(cpt, q), def.query),
     mutation |-> MapOption(LAMBDA m : Compactor_word(cpt, m), def.mutation),
     subscription |-> MapOption(LAMBDA sub : Compactor_word(cpt, sub), def.subscription)]

\* impl From<s::DirectiveDefinition> for DirectiveDefinition
DirectiveDefinition_from(def) ==
    [name |-> word(def.name),
     arguments |-> MapSeq(InputValue_from, def.arguments),
     repeatable |-> def.repeatable,
     locations |-> MapSeq(DirectiveLocation_from, def.locations)]

\* impl Compact<s::DirectiveDefinition> for DirectiveDefinition
DirectiveDefinition_compact(def, cpt) ==
    [name |-> Compactor_word(cpt, def.name),
     arguments |-> MapSeq(LAMBDA arg : InputValue_compact(arg, cpt), def.arguments),
     repeatable |-> def.repeatable,
     locations |-> MapSeq(DirectiveLocation_from, def.locations)]

\* impl From<s::TypeDefinition> for TypeDefinition
TypeDefinition_from(def) ==
    CASE def.kind = "Scalar" ->
             [tag |-> "Scalar", def |-> ScalarType_from(def.def)]
      [] def.kind = "Object" ->
             [tag |-> "Object", def |-> ObjectType_from(def.def)]
      [] def.kind = "Interface" ->
             [tag |-> "Interface", def |-> InterfaceType_from(def.def)]
      [] def.kind = "Union" ->
             [tag |-> "Union", def |-> UnionType_from(def.def)]
      [] def.kind = "Enum" ->
             [tag |-> "Enum", def |-> EnumType_from(def.def)]
      [] def.kind = "InputObject" ->
             [tag |-> "InputObject", def |-> InputObjectType_from(def.def)]

\* impl Compact<s::TypeDefinition> for TypeDefinition
TypeDefinition_compact(def, cpt) ==
    CASE def.kind = "Scalar" ->
             [tag |-> "Scalar", def |-> ScalarType_compact(def.def, cpt)]
      [] def.kind = "Object" ->
             [tag |-> "Object", def |-> ObjectType_compact(def.def, cpt)]
      [] def.kind = "Interface" ->
             [tag |-> "Interface", def |-> InterfaceType_compact(def.def, cpt)]
      [] def.kind = "Union" ->
             [tag |-> "Union", def |-> UnionType_compact(def.def, cpt)]
      [] def.kind = "Enum" ->
             [tag |-> "Enum", def |-> EnumType_compact(def.def, cpt)]
      [] def.kind = "InputObject" ->
             [tag |-> "InputObject", def |-> InputObjectType_compact(def.def, cpt)]

\* impl From<s::TypeExtension> for TypeExtension
TypeExtension_from(ext) ==
    CASE ext.kind = "Scalar" ->
             [tag |-> "Scalar", def |-> ScalarTypeExtension_from(ext.def)]
      [] ext.kind = "Object" ->
             [tag |-> "Object", def |-> ObjectTypeExtension_from(ext.def)]
      [] ext.kind = "Interface" ->
             [tag |-> "Interface", def |-> InterfaceTypeExtension_from(ext.def)]
      [] ext.kind = "Union" ->
             [tag |-> "Union", def |-> UnionTypeExtension_from(ext.def)]
      [] ext.kind = "Enum" ->
             [tag |-> "Enum", def |-> EnumTypeExtension_from(ext.def)]
      [] ext.kind = "InputObject" ->
             [tag |-> "InputObject", def |-> InputObjectTypeExtension_from(ext.def)]

\* impl Compact<s::TypeExtension> for TypeExtension
TypeExtension_compact(ext, cpt) ==
    CASE ext.kind = "Scalar" ->
             [tag |-> "Scalar", def |-> ScalarTypeExtension_compact(ext.def, cpt)]
      [] ext.kind = "Object" ->
             [tag |-> "Object", def |-> ObjectTypeExtension_compact(ext.def, cpt)]
      [] ext.kind = "Interface" ->
             [tag |-> "Interface", def |-> InterfaceTypeExtension_compact(ext.def, cpt)]
      [] ext.kind = "Union" ->
             [tag |-> "Union", def |-> UnionTypeExtension_compact(ext.def, cpt)]
      [] ext.kind = "Enum" ->
             [tag |-> "Enum", def |-> EnumTypeExtension_compact(ext.def, cpt)]
      [] ext.kind = "InputObject" ->
             [tag |-> "InputObject", def |-> InputObjectTypeExtension_compact(ext.def, cpt)]

\* impl From<s::Definition> for Definition
Definition_from(def) ==
    CASE def.kind = "SchemaDefinition" ->
             [tag |-> "SchemaDefinition", def |-> SchemaDefinition_from(def.def)]
      [] def.kind = "TypeDefinition" ->
             [tag |-> "TypeDefinition", def |-> TypeDefinition_from(def.def)]
      [] def.kind = "TypeExtension" ->
             [tag |-> "TypeExtension", def |-> TypeExtension_from(def.def)]
      [] def.kind = "DirectiveDefinition" ->
             [tag |-> "DirectiveDefinition", def |-> DirectiveDefinition_from(def.def)]

\* impl Compact<s::Definition> for Definition
Definition_compact(def, cpt) ==
    CASE def.kind = "SchemaDefinition" ->
             [tag |-> "SchemaDefinition", def |-> SchemaDefinition_compact(def.def, cpt)]
      [] def.kind = "TypeDefinition" ->
             [tag |-> "TypeDefinition", def |-> TypeDefinition_compact(def.def, cpt)]
      [] def.kind = "TypeExtension" ->
             [tag |-> "TypeExtension", def |-> TypeExtension_compact(def.def, cpt)]
      [] def.kind = "DirectiveDefinition" ->
             [tag |-> "DirectiveDefinition", def |-> DirectiveDefinition_compact(def.def, cpt)]

\* impl From<s::Document> for Document
Document_from(doc) ==
    [definitions |-> MapSeq(Definition_from, doc.definitions)]

\* impl Compact<s::Document> for Document
Document_compact(doc, cpt) ==
    [definitions |-> MapSeq(LAMBDA def : Definition_compact(def, cpt), doc.definitions)]

\* ps::Type values
NamedType(name) == [kind |-> "NamedType", name |-> name]

ListType(ty) == [kind |-> "ListType", of |-> ty]

NonNullType(ty) == [kind |-> "NonNullType", of |-> ty]

Some(val) == [tag |-> "Some", val |-> val]

None == [tag |-> "None"]

\* Sampled ps::Directive values: one without arguments, one with an
\* argument of every Value variant.
SampleDirectives ==
    << [name |-> "entity", arguments |-> << >>],
       [name |-> "derivedFrom",
        arguments |->
          << << "field", [kind |-> "String", string |-> "owner"] >>,
             << "first", [kind |-> "Int", number |-> 5] >>,
             << "ratio", [kind |-> "Float", float |-> "0.5"] >>,
             << "desc", [kind |-> "Boolean", bool |-> TRUE] >>,
             << "after", [kind |-> "Variable", name |-> "cursor"] >>,
             << "order", [kind |-> "Enum", name |-> "asc"] >>,
             << "where",
                [kind |-> "Object",
                 object |-> { << "id", [kind |-> "Null"] >>,
                              << "in", [kind |-> "List",
                                        list |-> << [kind |-> "Int", number |-> 1],
                                                    [kind |-> "Int", number |-> 0] >>] >> }] >> >>] >>

\* Sampled ps::InputValue values
SampleInputValues ==
    << [description |-> Some("page size"), name |-> "first",
        value_type |-> NamedType("Int"),
        default_value |-> Some([kind |-> "Int", number |-> 100]),
        directives |-> << SampleDirectives[1] >>],
       [description |-> None, name |-> "where",
        value_type |-> NonNullType(ListType(NamedType("Filter"))),
        default_value |-> None,
        directives |-> << >>] >>

\* Sampled ps::Field values
SampleFields ==
    << [description |-> None, name |-> "id", arguments |-> << >>,
        field_type |-> NonNullType(NamedType("ID")), directives |-> << >>],
       [description |-> Some("the tokens"), name |-> "tokens",
        arguments |-> SampleInputValues,
        field_type |-> NonNullType(ListType(NonNullType(NamedType("Token")))),
        directives |-> << SampleDirectives[2], SampleDirectives[1] >>] >>

\* Sampled ps::EnumValue values
SampleEnumValues ==
    << [description |-> None, name |-> "asc", directives |-> << >>],
       [description |-> Some("descending"), name |-> "desc",
        directives |-> << SampleDirectives[1] >>] >>

\* Sampled s::TypeDefinition and s::TypeExtension bodies, by variant.  An
\* extension carries no description.
SampleTypeBody(variant, extension) ==
    LET described == IF extension THEN << >> ELSE [description |-> Some("doc")]
        body ==
          CASE variant = "Scalar" ->
                 [name |-> "Date", directives |-> << SampleDirectives[1] >>]
            [] variant = "Object" ->
                 [name |-> "Token", implements_interfaces |-> << "Node", "Asset" >>,
                  directives |-> SampleDirectives, fields |-> SampleFields]
            [] variant = "Interface" ->
                 [name |-> "Node", implements_interfaces |-> << >>,
                  directives |-> << >>, fields |-> << SampleFields[1] >>]
            [] variant = "Union" ->
                 [name |-> "Asset", directives |-> << SampleDirectives[2] >>,
                  types |-> << "Token", "Coin" >>]
            [] variant = "Enum" ->
                 [name |-> "Order", directives |-> << >>,
                  values |-> SampleEnumValues]
            [] variant = "InputObject" ->
                 [name |-> "Filter", directives |-> << SampleDirectives[1] >>,
                  fields |-> SampleInputValues]
    IN  [ f \in DOMAIN body \cup DOMAIN described |->
            IF f \in DOMAIN body THEN body[f] ELSE described[f] ]

\* Sampled s::Definition values: every variant of Definition,
\* TypeDefinition and TypeExtension, and an object type without fields.
SampleDefinitions ==
    { [kind |-> "SchemaDefinition",
       def |-> [directives |-> << SampleDirectives[1] >>,
                query |-> Some("Query"), mutation |-> None,
                subscription |-> Some("Subscription")]],
      [kind |-> "DirectiveDefinition",
       def |-> [description |-> None, name |-> "derivedFrom",
                arguments |-> SampleInputValues, repeatable |-> TRUE,
                locations |-> << "s::FieldDefinition", "s::Object", "s::Query",
                                 "s::Mutation", "s::Subscription", "s::Field",
                                 "s::FragmentDefinition", "s::FragmentSpread",
                                 "s::InlineFragment", "s::Schema", "s::Scalar",
                                 "s::ArgumentDefinition", "s::Interface",
                                 "s::Union", "s::Enum", "s::EnumValue",
                                 "s::InputObject", "s::InputFieldDefinition" >>]],
      [kind |-> "TypeDefinition",
       def |-> [kind |-> "Object",
                def |-> [description |-> None, name |-> "Empty",
                         implements_interfaces |-> << >>, directives |-> << >>,
                         fields |-> << >>]]] }
    \cup { [kind |-> "TypeDefinition",
            def |-> [kind |-> v, def |-> SampleTypeBody(v, FALSE)]] :
           v \in {"Scalar", "Object", "Interface", "Union", "Enum", "InputObject"} }
    \cup { [kind |-> "TypeExtension",
            def |-> [kind |-> v, def |-> SampleTypeBody(v, TRUE)]] :
           v \in {"Scalar", "Object", "Interface", "Union", "Enum", "InputObject"} }

\* Sampled s::Document values: at most MaxDefs definitions each.
Documents ==
    { [definitions |-> defs] :
        defs \in UNION { [1..k -> SampleDefinitions] : k \in 0..MaxDefs } }

\* What the query builders and new_block_stream hold: no step of the schema
\* conversion touches it.
not_schema ==
    << table, use_brin_for_all_query_types, at_block, out, cols, selection,
       threads, stream >>

\* A schema document comes out of the parser.
ParseDocument ==
    /\ schema.pc = "idle"
    /\ \E doc \in Documents :
        schema' = [pc |-> "parsed", doc |-> doc, from |-> None, compact |-> None]
    /\ UNCHANGED not_schema

\* Document::from(doc)
DocumentFrom ==
    /\ schema.pc = "parsed"
    /\ schema.from = None
    /\ schema' = [schema EXCEPT !.from = Some(Document_from(schema.doc))]
    /\ UNCHANGED not_schema

\* Document::compact(doc, &mut Compactor)
DocumentCompact ==
    /\ schema.pc = "parsed"
    /\ schema.compact = None
    /\ schema' = [schema EXCEPT !.compact = Some(Document_compact(schema.doc, Compactor))]
    /\ UNCHANGED not_schema

\* The document and its converted forms are dropped.
DocumentDone ==
    /\ schema.pc = "parsed"
    /\ schema' = NoSchema
    /\ UNCHANGED not_schema

NextSchema ==
    \/ ParseDocument
    \/ DocumentFrom
    \/ DocumentCompact
    \/ DocumentDone

\* The conversion runs beside one table of the layout, the largest.
InitSchema == Init /\ Len(table.columns) = NCols

SpecSchema == InitSchema /\ [][NextSchema]_vars


\* ------------------------------------------- claims on concurrent callers

\* What the call th has completed returns when no other caller runs: the
\* call applied to the table and ENV_VARS as they were handed to the callers.
Alone(thread, t, use_brin) ==
    CASE thread.pc = "rendered" -> walk_ast(thread.expr, t, use_brin)
      [] thread.pc = "columns" ->
             selected_columns(t, thread.request.WITH_INTERNAL_KEYS,
                              thread.request.WITH_SYSTEM_COLUMNS,
                              thread.request.column_names,
                              IterationOf(thread.request.column_names),
                              thread.request.parent_type)
      [] thread.pc = "selected" -> select_cols(t, thread.columns)

UpstreamsCreated ==
    SelectSeq(stream.log,
              LAMBDA e : e.ev \in {"new_firehose_block_stream",
                                   "new_polling_block_stream"})

\* C29: a call of new_block_stream creates exactly one upstream stream, the
\* firehose one if chain.is_firehose_supported() and the polling one
\* otherwise; the firehose stream is created from the store's block cursor
\* and buffered with 1 event, the polling stream from the block pointer read
\* before it is created and buffered with 100 events; if the creation fails
\* the error is returned and nothing is spawned.
C29_OneUpstreamPerCall ==
    stream.pc \in {"done", "failed"} =>
        /\ Len(stream.log) = 2
        /\ Len(UpstreamsCreated) = 1
        /\ IF stream.is_firehose
           THEN /\ stream.log[1].ev = "block_cursor"
                /\ stream.log[2] = [ev |-> "new_firehose_block_stream",
                                    val |-> stream.log[1].val]
                /\ stream.pc = "done" => stream.spawned.size = 1
           ELSE /\ stream.log[1].ev = "block_ptr"
                /\ stream.log[2] = [ev |-> "new_polling_block_stream",
                                    val |-> stream.log[1].val]
                /\ stream.pc = "done" => stream.spawned.size = 100
        /\ stream.pc = "done" =>
               /\ stream.result.tag = "Ok"
               /\ stream.spawned.tag = "Some"
               /\ stream.spawned.upstream = stream.log[2]
        /\ stream.pc = "failed" =>
               /\ stream.result.tag = "Err"
               /\ stream.spawned.tag = "None"

C29_Witness ==
    /\ stream.pc = "done" /\ ~stream.is_firehose
    /\ stream.spawned.tag = "Some" /\ stream.spawned.size = 100
    /\ stream.spawned.upstream.ev = "new_polling_block_stream"
    /\ stream.spawned.upstream.val = [tag |-> "Some", number |-> 1]
    /\ stream.store.block_ptr = [tag |-> "Some", number |-> 2]

\* --------------------------------------- claims on compact schema documents

\* Both conversions of the document have run.
BothConverted ==
    schema.pc = "parsed" /\ schema.from # None /\ schema.compact # None

\* The struct below the variant tags of a source definition.
SourceBody(def) ==
    IF def.kind \in {"TypeDefinition", "TypeExtension"} THEN def.def.def ELSE def.def

\* The struct below the variant tags of a compact definition.
CompactBody(def) ==
    IF def.tag \in {"TypeDefinition", "TypeExtension"} THEN def.def.def ELSE def.def

\* The names of a source sequence of named items, in order.
SourceNames(seq) == [i \in 1..Len(seq) |-> seq[i].name]

\* The names of a compact sequence of named items, in order.
CompactNames(seq) == [i \in 1..Len(seq) |-> seq[i].name.word]

\* The compact struct c keeps the items of field f of the source struct d,
\* in number and order.
KeepsItems(c, d, f) ==
    f \in DOMAIN d => (f \in DOMAIN c /\ CompactNames(c[f]) = SourceNames(d[f]))

\* C28: for every schema document Document::compact yields a value equal
\* to Document::from; both keep the number and order of the definitions,
\* map every variant to the variant of the same name and keep the number
\* and order of fields, directives and arguments.
C28_CompactEqualsFrom ==
    BothConverted =>
        LET doc == schema.doc
            compact == schema.compact.val
        IN  /\ compact = schema.from.val
            /\ Len(compact.definitions) = Len(doc.definitions)
            /\ \A i \in 1..Len(doc.definitions) :
                LET d == doc.definitions[i]
                    c == compact.definitions[i]
                IN  /\ c.tag = d.kind
                    /\ d.kind \in {"TypeDefinition", "TypeExtension"} =>
                           c.def.tag = d.def.kind
                    /\ KeepsItems(CompactBody(c), SourceBody(d), "directives")
                    /\ KeepsItems(CompactBody(c), SourceBody(d), "fields")
                    /\ KeepsItems(CompactBody(c), SourceBody(d), "arguments")
                    /\ KeepsItems(CompactBody(c), SourceBody(d), "values")
                    /\ ("fields" \in DOMAIN SourceBody(d)
                          /\ d.def.kind \in {"Object", "Interface"}) =>
                           \A j \in 1..Len(SourceBody(d).fields) :
                               /\ j <= Len(CompactBody(c).fields)
                               /\ KeepsItems(CompactBody(c).fields[j],
                                             SourceBody(d).fields[j], "arguments")
                               /\ KeepsItems(CompactBody(c).fields[j],
                                             SourceBody(d).fields[j], "directives")

C28_Witness ==
    /\ BothConverted
    /\ Len(schema.doc.definitions) = 2
    /\ schema.doc.definitions[1].kind = "TypeExtension"
    /\ schema.doc.definitions[1].def.kind = "Object"
    /\ schema.doc.definitions[2].kind = "DirectiveDefinition"
    /\ schema.compact.val.definitions[1].tag = "TypeExtension"
    /\ schema.compact.val.definitions[1].def.tag = "Object"
    /\ CompactNames(schema.compact.val.definitions[1].def.def.fields)
           = << "id", "tokens" >>
    /\ CompactNames(schema.compact.val.definitions[1].def.def.fields[2].arguments)
           = << "first", "where" >>
    /\ schema.compact.val.definitions[2].def.locations[1] = "FieldDefinition"

====
